---- MODULE Spec2Model ----
(***************************************************************************)
(* Scan-to-order (souffle stall): the cart engine, the localStorage order  *)
(* store, the staff board's status transitions and the expiry sweep of     *)
(* App.tsx, as a state machine.                                            *)
(*                                                                         *)
(* Money is kept in thousandths of a ringgit (12.0 RM = 12000), so that    *)
(* rounding to two decimals is a real operation.  Time is in milliseconds. *)
(* The display names of the catalog are written in ASCII.                  *)
(***************************************************************************)
EXTENDS Integers, Sequences, FiniteSets, TLC

VARIABLES
  now,        \* Date.now(), epoch milliseconds
  nowYear,    \* new Date().getFullYear()
  lsOrders,   \* localStorage[LS_ORDERS_KEY]: the persisted order collection
  lsOrdersKey,\* whether localStorage holds anything under LS_ORDERS_KEY
  lsSeq,      \* localStorage[LS_SEQ_KEY]: NoSeq, or [y, n]
  mode,       \* per session: "customer" or "staff" (?mode=staff)
  cart,       \* per session: useState cart
  form,       \* per session: pickupName, note, phone, marketing
  placing,    \* per session: useState placing
  inflight,   \* per session: the closure held by submitOrder's setTimeout
              \* (the oldest pending; its field later holds those set after it)
  placed,     \* per session: useState placed (NoOrder or the order)
  orders,     \* per session: useState orders
  staffAuthed,\* per session: useState staffAuthed
  storageEvt, \* per session: a "storage" event is on its way to the session
  cheeseTimer,\* per session: the setTimeout(addCheeseToDrink, 0) pending, oldest first
  calls,      \* history: per sku, the addFlavor/addDrink calls made directly
  lastOp      \* history: the handler that ran last, and whether it saved orders

storeVars   == <<lsOrders, lsOrdersKey, lsSeq>>
clockVars   == <<now, nowYear>>
custVars    == <<cart, form, placing, inflight, placed, cheeseTimer>>
viewVars    == <<orders, staffAuthed, storageEvt>>
vars        == <<now, nowYear, lsOrders, lsOrdersKey, lsSeq, mode, cart, form, placing,
                 inflight, placed, orders, staffAuthed, storageEvt,
                 cheeseTimer, calls, lastOp>>

---------------------------------------------------------------------------
(* Bounds of the model *)

\* Largest qty a cart line reaches in the cart-only specification.
MaxQty == 3
\* Largest number of cart lines in the cart-only specification.
MaxLines == 2
\* Largest cheese qty on a souffle line (the code sets no cap).
MaxCheese == 2
\* Largest number of units (sum of qty) of a cart when the customer is alone.
OrderMaxUnits == 2
\* Largest number of units of a cart when staff and timers run too.
StoreMaxUnits == 1
\* Queue numbers issued per year in the store specification.
MaxSeq == 2
\* Orders held by the store when a submission is started.
MaxOrders == 2
\* Orders held by the store in the specifications that take one at a time.
StoreMaxOrders == 1
\* Writes the remote collection takes.
MaxWrites == 2
\* Documents of one tab that await the server's answer.
MaxAwaiting == 1
\* The calendar year the clock starts in.
BaseYear == 2025
\* The clock runs over k * window + j ms, k in 0..MaxWindows, j in 0..MaxMs.
MaxWindows == 1
MaxMs == 1
\* Year rollovers observed.
MaxYears == 1
\* Zero-delay timers of the drink Cheese button pending in one tab.
MaxTimers == 2
\* Timeouts of submitOrder pending in one tab.
MaxPending == 2

---------------------------------------------------------------------------
(* Catalog *)

PRODUCT == [id |-> "souffle", name |-> "Souffle", basePrice |-> 12000]

FLAVORS == <<
  [id |-> "van", name |-> "Vanilla",    priceDelta |-> 0],
  [id |-> "cho", name |-> "Chocolate",  priceDelta |-> 0],
  [id |-> "mat", name |-> "Matcha",     priceDelta |-> 1500],
  [id |-> "str", name |-> "Strawberry", priceDelta |-> 0],
  [id |-> "mng", name |-> "Mango",      priceDelta |-> 0],
  [id |-> "egl", name |-> "Earl Grey",  priceDelta |-> 0],
  [id |-> "hoj", name |-> "Hojicha",    priceDelta |-> 1500],
  [id |-> "blu", name |-> "Blueberry",  priceDelta |-> 0],
  [id |-> "bis", name |-> "Biscoff",    priceDelta |-> 2000] >>

DRINKS == << [id |-> "drink-hojicha", name |-> "Hojicha (Drink)", price |-> 3000] >>

CHEESE == [id |-> "addon-cheese", name |-> "Cheese Topping", price |-> 2000]

priceFor(f) == PRODUCT.basePrice + f.priceDelta

PAYMENT_WINDOW_MIN == 10

PaymentWindow == PAYMENT_WINDOW_MIN * 60 * 1000

Range(seq) == { seq[i] : i \in 1..Len(seq) }

FlavorSet == Range(FLAVORS)
DrinkIds  == { d.id : d \in Range(DRINKS) }

skuOf(f) == PRODUCT.id \o "-" \o f.id

AllSkus == { skuOf(f) : f \in FlavorSet } \cup DrinkIds

---------------------------------------------------------------------------
(* Cart engine: pure transformations of a sequence of cart lines *)

\* prev.find((p) => p.sku === sku) succeeds
HasSku(prev, sku) == \E i \in 1..Len(prev) : prev[i].sku = sku

\* prev.map((p) => (p.sku === sku ? { ...p, qty: p.qty + d } : p))
MapQty(prev, sku, d) ==
  [i \in 1..Len(prev) |->
     IF prev[i].sku = sku THEN [prev[i] EXCEPT !.qty = @ + d] ELSE prev[i]]

\* prev.filter((p) => p.sku !== sku)
FilterOut(prev, sku) == SelectSeq(prev, LAMBDA p : p.sku # sku)

\* a variant of addFlavor that pushes a new line on every call
addFlavorAppend(prev, f) ==
  Append(prev, [sku |-> skuOf(f), flavorId |-> f.id,
                name |-> PRODUCT.name \o " - " \o f.name,
                unitPrice |-> priceFor(f), qty |-> 1, addons |-> <<>>])

addFlavorCart(prev, f) ==
  LET sku == skuOf(f) IN
  IF HasSku(prev, sku)
  THEN MapQty(prev, sku, 1)
  ELSE Append(prev, [sku |-> sku, flavorId |-> f.id,
                     name |-> PRODUCT.name \o " - " \o f.name,
                     unitPrice |-> priceFor(f), qty |-> 1, addons |-> <<>>])

addDrinkCart(prev, id) ==
  LET d == CHOOSE x \in Range(DRINKS) : x.id = id IN
  IF HasSku(prev, d.id)
  THEN MapQty(prev, d.id, 1)
  ELSE Append(prev, [sku |-> d.id, flavorId |-> "", name |-> d.name,
                     unitPrice |-> d.price, qty |-> 1, addons |-> <<>>])

HasAddon(addons, id) == \E j \in 1..Len(addons) : addons[j].id = id

\* a variant of the add-on increment whose cap test is qty <= max
BumpAddonLoose(addons, max, capped) ==
  IF HasAddon(addons, CHEESE.id)
  THEN [j \in 1..Len(addons) |->
          IF addons[j].id = CHEESE.id /\ (~capped \/ addons[j].qty <= max)
          THEN [addons[j] EXCEPT !.qty = @ + 1] ELSE addons[j]]
  ELSE Append(addons, [id |-> CHEESE.id, name |-> CHEESE.name,
                       price |-> CHEESE.price, qty |-> 1])

\* ex.qty += 1 on the entry found, or push a new entry with qty 1
BumpAddon(addons, max, capped) ==
  IF HasAddon(addons, CHEESE.id)
  THEN [j \in 1..Len(addons) |->
          IF addons[j].id = CHEESE.id /\ (~capped \/ addons[j].qty < max)
          THEN [addons[j] EXCEPT !.qty = @ + 1] ELSE addons[j]]
  ELSE Append(addons, [id |-> CHEESE.id, name |-> CHEESE.name,
                       price |-> CHEESE.price, qty |-> 1])

addCheeseToSouffleCart(prev, sku) ==
  [i \in 1..Len(prev) |->
     IF prev[i].sku # sku THEN prev[i]
     ELSE [prev[i] EXCEPT !.addons = BumpAddon(@, 0, FALSE)]]

addCheeseToDrinkCart(prev, sku) ==
  [i \in 1..Len(prev) |->
     IF prev[i].sku # sku THEN prev[i]
     ELSE [prev[i] EXCEPT !.addons = BumpAddon(@, prev[i].qty, TRUE)]]

\* a variant of inc that adds a line for a sku the cart does not have
incOrAdd(prev, sku) ==
  IF HasSku(prev, sku) THEN MapQty(prev, sku, 1)
  ELSE Append(prev, [sku |-> sku, flavorId |-> "", name |-> sku,
                     unitPrice |-> 0, qty |-> 1, addons |-> <<>>])

incCart(prev, sku) == MapQty(prev, sku, 1)

\* a variant of dec that removes the line only below qty 1
decToZero(prev, sku) ==
  IF ~HasSku(prev, sku) THEN prev
  ELSE LET x == prev[CHOOSE i \in 1..Len(prev) :
                       prev[i].sku = sku /\ \A k \in 1..(i-1) : prev[k].sku # sku]
       IN IF x.qty < 1 THEN FilterOut(prev, sku) ELSE MapQty(prev, sku, -1)

decCart(prev, sku) ==
  IF ~HasSku(prev, sku) THEN prev
  ELSE LET x == prev[CHOOSE i \in 1..Len(prev) :
                       prev[i].sku = sku /\ \A k \in 1..(i-1) : prev[k].sku # sku]
       IN IF x.qty <= 1 THEN FilterOut(prev, sku) ELSE MapQty(prev, sku, -1)

\* a variant of the add-on sum that counts each add-on once, whatever its qty
SumAddonsOnce(addons) ==
  IF addons = <<>> THEN 0
  ELSE LET RECURSIVE go(_)
           go(k) == IF k = 0 THEN 0 ELSE go(k - 1) + addons[k].price
       IN go(Len(addons))

RECURSIVE SumAddons(_)
SumAddons(addons) ==
  IF addons = <<>> THEN 0
  ELSE SumAddons(SubSeq(addons, 1, Len(addons) - 1))
       + addons[Len(addons)].price * addons[Len(addons)].qty

\* cart.reduce((s, i) => s + i.unitPrice * i.qty + sum of addons, 0)
RECURSIVE subtotal(_)
subtotal(items) ==
  IF items = <<>> THEN 0
  ELSE subtotal(SubSeq(items, 1, Len(items) - 1))
       + items[Len(items)].unitPrice * items[Len(items)].qty
       + SumAddons(items[Len(items)].addons)

\* parseFloat(x.toFixed(2)): x rounded to two decimals, halves up
Round2(x) == ((x + 5) \div 10) * 10

---------------------------------------------------------------------------
(* Text: a string is a sequence of characters *)

\* the characters trim() removes: WhiteSpace and LineTerminator of the
\* language; those that are not ASCII go by their code point
WhiteSpace ==
  { " ", "\t", "\n", "\r", "\f", "U+000B", "U+00A0", "U+FEFF", "U+1680",
    "U+2000", "U+2001", "U+2002", "U+2003", "U+2004", "U+2005", "U+2006",
    "U+2007", "U+2008", "U+2009", "U+200A", "U+2028", "U+2029", "U+202F",
    "U+205F", "U+3000" }

IsSpace(c) == c \in WhiteSpace

RECURSIVE TrimStart(_)
TrimStart(t) == IF t # <<>> /\ IsSpace(Head(t)) THEN TrimStart(Tail(t)) ELSE t

RECURSIVE TrimEnd(_)
TrimEnd(t) ==
  IF t # <<>> /\ IsSpace(t[Len(t)]) THEN TrimEnd(SubSeq(t, 1, Len(t) - 1)) ELSE t

\* a variant of trim that removes nothing
TrimNone(t) == t

\* String.prototype.trim
Trim(t) == TrimEnd(TrimStart(t))

\* the value undefined of an optional text field, and of an optional number
UndefText == << "undefined" >>
UndefNum  == -1

\* x || undefined
OrUndefined(t) == IF t = <<>> THEN UndefText ELSE t

---------------------------------------------------------------------------
(* localStorage "backend" *)

Statuses == {"New", "Paid", "Preparing", "Ready", "Done", "Cancelled"}

\* a variant that keeps the stored status
normalizeKeep(st) == st

\* normalize(s) of getAllOrders
normalize(st) == IF st \in Statuses THEN st ELSE "New"

(* The value under LS_ORDERS_KEY is modelled by the array it parses to.    *)
(* What makes the try block of getAllOrders throw is kept as a marker in  *)
(* its place: a text that JSON.parse rejects, a store that getItem cannot  *)
(* read, a JSON value that is no array (arr.map is not a function), and a *)
(* null element of the array (o.id of null).                              *)
SyntaxError == [json |-> "SyntaxError"]
Unreadable  == [json |-> "getItem throws"]
NotArray    == [json |-> "not an array"]
NullElement == [json |-> "null"]

\* the try block of getAllOrders runs through
Readable(stored) == \A i \in 1..Len(stored) : "json" \notin DOMAIN stored[i]

\* one record of getAllOrders' arr.map
normalizeOrder(o, t) ==
  [id            |-> o.id,
   items         |-> o.items,
   total         |-> o.total,
   status        |-> normalize(o.status),
   createdAt     |-> IF o.createdAt = UndefNum THEN t ELSE o.createdAt,
   expiresAt     |-> IF o.expiresAt = UndefNum \/ o.expiresAt = 0
                     THEN UndefNum ELSE o.expiresAt,
   note          |-> o.note,
   pickupName    |-> o.pickupName,
   phone         |-> o.phone,
   marketingOptIn |-> IF "marketingOptIn" \in DOMAIN o THEN o.marketingOptIn
                      ELSE FALSE]

\* a variant without the try/catch: what is unreadable is handed on as it is
getAllOrdersRaw(stored, t) ==
  IF Readable(stored)
  THEN [i \in 1..Len(stored) |-> normalizeOrder(stored[i], t)]
  ELSE stored

\* getAllOrders(): the parsed array, record by record; [] from the catch
getAllOrders(stored, t) ==
  IF Readable(stored)
  THEN [i \in 1..Len(stored) |-> normalizeOrder(stored[i], t)]
  ELSE <<>>

NoSeq == [y |-> 0, n |-> 0]

\* String(n).padStart(3, "0")
padStart3(n) ==
  IF n < 10 THEN "00" \o ToString(n)
  ELSE IF n < 100 THEN "0" \o ToString(n)
  ELSE ToString(n)

\* a variant of nextQueueNumber that issues number 1 whatever is stored
nextSeqStuck(seq, year) == [y |-> year, n |-> 1]

\* a variant of nextQueueNumber without the year test
nextSeqNoReset(seq, year) ==
  LET cur == IF seq = NoSeq THEN [y |-> year, n |-> 0] ELSE seq
  IN [cur EXCEPT !.n = @ + 1]

\* the {y, n} that nextQueueNumber stores
nextSeq(seq, year) ==
  LET cur == IF seq = NoSeq THEN [y |-> year, n |-> 0] ELSE seq
      rst == IF cur.y # year THEN [y |-> year, n |-> 0] ELSE cur
  IN [rst EXCEPT !.n = @ + 1]

\* the string that nextQueueNumber returns
nextQueueNumber(seq, year) == "Q-" \o padStart3(nextSeq(seq, year).n)

---------------------------------------------------------------------------
(* Lifecycle: the transformations of the collection *)

\* a variant of the expiry test that also fires at now = expiresAt
OverdueInclusive(o, t) == o.status = "New" /\ o.expiresAt # UndefNum /\ o.expiresAt # 0
                          /\ t >= o.expiresAt

\* the expiry test of the sweep
Overdue(o, t) == o.status = "New" /\ o.expiresAt # UndefNum /\ o.expiresAt # 0
                 /\ t > o.expiresAt

\* a variant of the sweep that stops after the first overdue order
sweepFirstOnly(current, t) ==
  [i \in 1..Len(current) |->
     IF Overdue(current[i], t) /\ \A j \in 1..(i - 1) : ~Overdue(current[j], t)
     THEN [current[i] EXCEPT !.status = "Cancelled"]
     ELSE current[i]]

\* next of the interval callback
sweepNext(current, t) ==
  [i \in 1..Len(current) |->
     IF Overdue(current[i], t) THEN [current[i] EXCEPT !.status = "Cancelled"]
     ELSE current[i]]

\* a variant of the sweep whose mutated flag is never set
sweepMutatedNever(current, t) == FALSE

\* a variant of the sweep that saves whatever it has read
sweepMutatedAlways(current, t) == TRUE

\* mutated of the interval callback
sweepMutated(current, t) == \E i \in 1..Len(current) : Overdue(current[i], t)

\* a variant of updateOrder that accepts only the next status, or Cancel
updateForwardOnly(current, id, st) ==
  LET flow    == <<"New", "Paid", "Preparing", "Ready", "Done", "Cancelled">>
      rank(x) == CHOOSE k \in 1..Len(flow) : flow[k] = x
  IN [i \in 1..Len(current) |->
        IF current[i].id = id
           /\ (st = "Cancelled" \/ rank(st) = rank(current[i].status) + 1)
        THEN [current[i] EXCEPT !.status = st] ELSE current[i]]

\* a variant of updateOrder without the id test
updateEvery(current, id, st) ==
  [i \in 1..Len(current) |-> [current[i] EXCEPT !.status = st]]

\* a variant of updateOrder that falls back on the newest order
updateOrFirst(current, id, st) ==
  [i \in 1..Len(current) |->
     IF current[i].id = id \/ (i = 1 /\ \A k \in 1..Len(current) : current[k].id # id)
     THEN [current[i] EXCEPT !.status = st] ELSE current[i]]

\* a variant of updateOrder that reopens every other order
updateAndReopen(current, id, st) ==
  [i \in 1..Len(current) |->
     [current[i] EXCEPT !.status = IF current[i].id = id THEN st ELSE "New"]]

\* getAllOrders().map((o) => (o.id === id ? { ...o, ...patch } : o)), patch = {status}
updateNext(current, id, st) ==
  [i \in 1..Len(current) |->
     IF current[i].id = id THEN [current[i] EXCEPT !.status = st] ELSE current[i]]

\* a variant of deleteOrder that spares the orders still in progress
deleteFinishedOnly(current, id) ==
  SelectSeq(current, LAMBDA o : ~(o.id = id /\ o.status \in {"Done", "Cancelled"}))

\* getAllOrders().filter((o) => o.id !== id)
deleteNext(current, id) == SelectSeq(current, LAMBDA o : o.id # id)

STORE_CAP == 300

\* a variant of the save without slice(0, 300)
createNextNoCap(current, order) == <<order>> \o current

\* [order, ...getAllOrders()].slice(0, 300)
createNext(current, order) ==
  LET all == <<order>> \o current
  IN SubSeq(all, 1, IF Len(all) < STORE_CAP THEN Len(all) ELSE STORE_CAP)

---------------------------------------------------------------------------
(* Sessions (browser tabs on the same origin) and their initial state *)

Customers == {"c1"}
Staff     == {"s1"}
Sessions  == Customers \cup Staff

\* the instants the clock takes
Times == { k * PaymentWindow + j : k \in 0..MaxWindows, j \in 0..MaxMs }

BlankForm == [pickupName |-> <<>>, note |-> <<>>, phone |-> <<>>, marketing |-> TRUE]

\* what the customer types into the form
FormInputs ==
  { BlankForm,
    [pickupName |-> <<" ", "\t">>, note |-> <<"n">>, phone |-> <<>>, marketing |-> TRUE],
    [pickupName |-> <<"A">>, note |-> <<>>, phone |-> <<" ">>, marketing |-> TRUE],
    [pickupName |-> <<"\t", "A", "\n">>, note |-> <<"n">>, phone |-> <<"1", " ">>,
     marketing |-> FALSE] }

NoOrder  == [id |-> "none"]
NoFlight == [active |-> FALSE, items |-> <<>>, subtotal |-> 0, form |-> BlankForm,
             shared |-> {}]
NoOp     == [op |-> "init", wrote |-> FALSE]

\* a record left in localStorage by the earlier revision of the app, whose
\* orders have no expiresAt, phone or marketingOptIn
LegacyOrder ==
  [id |-> "Q-001",
   items |-> << [sku |-> "souffle-van", name |-> "Souffle - Vanilla",
                 unitPrice |-> 12000, qty |-> 1, addons |-> <<>>] >>,
   total |-> 12000, status |-> "New", createdAt |-> 0, expiresAt |-> UndefNum,
   note |-> UndefText, pickupName |-> <<"B">>, phone |-> UndefText]

InitState(stored, seq, c, f) ==
  /\ now = 0
  /\ nowYear = BaseYear
  /\ lsOrders = stored
  /\ lsOrdersKey = (stored # <<>> \/ seq # NoSeq)
  /\ lsSeq = seq
  /\ mode = [s \in Sessions |-> IF s \in Staff THEN "staff" ELSE "customer"]
  /\ cart = [s \in Sessions |-> IF s = "c1" THEN c ELSE <<>>]
  /\ form = [s \in Sessions |-> IF s = "c1" THEN f ELSE BlankForm]
  /\ placing = [s \in Sessions |-> FALSE]
  /\ inflight = [s \in Sessions |-> NoFlight]
  /\ placed = [s \in Sessions |-> NoOrder]
  /\ orders = [s \in Sessions |-> getAllOrders(stored, 0)]
  /\ staffAuthed = [s \in Sessions |-> FALSE]
  /\ storageEvt = [s \in Sessions |-> FALSE]
  /\ cheeseTimer = [s \in Sessions |-> <<>>]
  /\ calls = [k \in AllSkus |-> 0]
  /\ lastOp = NoOp

InitWith(stored, seq) == InitState(stored, seq, <<>>, BlankForm)

\* a browser that has never run the app
Init == InitWith(<<>>, NoSeq)

\* a browser that has never run the app, or that ran its earlier revision
InitLegacy ==
  \/ InitWith(<<>>, NoSeq)
  \/ InitWith(<<LegacyOrder>>, [y |-> BaseYear, n |-> 1])

\* the entry of the history for handler name
Op(name, s, wrote) == [op |-> name, wrote |-> wrote]

\* a variant in which the event goes to the writing tab itself
NotifiedSelf(s, changed) ==
  [x \in Sessions |-> IF x = s /\ changed THEN TRUE ELSE storageEvt[x]]

\* whether setItem(LS_ORDERS_KEY, JSON.stringify(next)) changes what is
\* stored: it does when the key is new or when the text differs, as it does
\* from the text of a record that getAllOrders completed
SetItemChanges(next) == ~lsOrdersKey \/ next # lsOrders

\* setItem/removeItem by session s: the other tabs get a "storage" event when
\* the stored value changed
Notified(s, changed) ==
  [x \in Sessions |-> IF x # s /\ changed THEN TRUE ELSE storageEvt[x]]

\* localStorage.getItem throws, whatever the key
GetItemThrows == \E i \in 1..Len(lsOrders) : lsOrders[i] = Unreadable

\* whether a setItem that stores changes the text under LS_ORDERS_KEY; the
\* text behind a store that cannot be read may be the one written or not
SaveChanges(next) == IF GetItemThrows THEN BOOLEAN ELSE {SetItemChanges(next)}

\* saveAllOrders(next) by session s, where setItem stores; a store whose
\* getItem throws keeps throwing, whatever was written
saveAllOrders(s, next) ==
  /\ lsOrders' = IF GetItemThrows THEN lsOrders ELSE next
  /\ lsOrdersKey' = TRUE
  /\ \E changed \in SaveChanges(next) : storageEvt' = Notified(s, changed)

\* saveAllOrders where setItem throws as getItem does: the handler ends
\* there, before its setOrders
saveAllOrdersThrows(s, name) ==
  /\ GetItemThrows
  /\ lastOp' = Op(name \o "Throws", s, FALSE)
  /\ UNCHANGED <<lsOrders, lsOrdersKey, lsSeq, orders, storageEvt>>

---------------------------------------------------------------------------
(* Cart state of a session.  An add-on object is mutated in place          *)
(* (ex.qty += 1), and submitOrder's closure holds the cart of the render   *)
(* it was called in: while a submission is in flight the closure sees the  *)
(* increments made to the add-on objects it shares with the live cart.     *)

CartUnits(items) ==
  LET RECURSIVE U(_)
      U(k) == IF k = 0 THEN 0 ELSE U(k - 1) + items[k].qty
  IN U(Len(items))

SkusWithAddon(items) ==
  { items[i].sku : i \in { k \in 1..Len(items) : items[k].addons # <<>> } }

LineOf(items, sku) == items[CHOOSE i \in 1..Len(items) : items[i].sku = sku]

\* the closure's lines after the live cart became c: shared add-on objects
\* carry the qty they have in c
SeenThrough(fl, c) ==
  [i \in 1..Len(fl.items) |->
     IF fl.items[i].sku \in fl.shared /\ HasSku(c, fl.items[i].sku)
        /\ LineOf(c, fl.items[i].sku).addons # <<>>
     THEN [fl.items[i] EXCEPT !.addons = LineOf(c, fl.items[i].sku).addons]
     ELSE fl.items[i]]

\* the closures of the timeouts set after the one of fl, oldest first
Later(fl) == IF "later" \in DOMAIN fl THEN fl.later ELSE <<>>

\* the timeouts of submitOrder pending in session s
Pending(s) == IF inflight[s].active THEN 1 + Len(Later(inflight[s])) ELSE 0

\* setTimeout(..., 400) with closure cl, behind those pending
Schedule(fl, cl) ==
  IF ~fl.active THEN cl ELSE [later |-> Append(Later(fl), cl)] @@ fl

\* the timeouts left when the oldest has run: equal delays run in the
\* order they were set
NextFlight(fl) ==
  IF Later(fl) = <<>> THEN NoFlight
  ELSE IF Len(Later(fl)) = 1 THEN Head(Later(fl))
  ELSE [later |-> Tail(Later(fl))] @@ Head(Later(fl))

\* a closure after the live cart became c
ClosureThrough(fl, c) ==
  [fl EXCEPT !.items = SeenThrough(fl, c), !.shared = @ \cap SkusWithAddon(c)]

\* setCart(c) in session s
SetCart(s, c) ==
  /\ cart' = [cart EXCEPT ![s] = c]
  /\ inflight' = [inflight EXCEPT ![s] =
        IF ~inflight[s].active THEN inflight[s]
        ELSE IF Later(inflight[s]) = <<>> THEN ClosureThrough(inflight[s], c)
        ELSE [ClosureThrough(inflight[s], c) EXCEPT
                !.later = [k \in 1..Len(@) |-> ClosureThrough(@[k], c)]]]

---------------------------------------------------------------------------
(* Customer view: the handlers behind its buttons *)

\* the customer view is what App renders
CustomerView(s) == mode[s] = "customer" /\ placed[s] = NoOrder

\* flavors and units the customer picks in the store specification
StoreFlavors == { f \in FlavorSet : f.id = "mat" }
FitsStore(c) ==
  /\ CartUnits(c) <= OrderMaxUnits
  /\ \A i \in 1..Len(c) : \A j \in 1..Len(c[i].addons) : c[i].addons[j].qty <= MaxCheese

CartOnly(s, name) ==
  /\ lastOp' = Op(name, s, FALSE)
  /\ UNCHANGED <<now, nowYear, lsOrders, lsOrdersKey, lsSeq, mode, form, placing, placed,
                 orders, staffAuthed, storageEvt, calls>>

\* onClick={() => addFlavor(f)}
AddFlavor(s, f) ==
  /\ CustomerView(s)
  /\ FitsStore(addFlavorCart(cart[s], f))
  /\ SetCart(s, addFlavorCart(cart[s], f))
  /\ UNCHANGED cheeseTimer
  /\ CartOnly(s, "addFlavor")

\* the drink card's Add button
AddDrink(s, id) ==
  /\ CustomerView(s)
  /\ FitsStore(addDrinkCart(cart[s], id))
  /\ SetCart(s, addDrinkCart(cart[s], id))
  /\ UNCHANGED cheeseTimer
  /\ CartOnly(s, "addDrink")

\* the drink card's Cheese button: on a drink not in the cart, addDrink now
\* and addCheeseToDrink from a zero-delay timer
DrinkCheeseClick(s, id) ==
  /\ CustomerView(s)
  /\ IF ~HasSku(cart[s], id)
     THEN /\ Len(cheeseTimer[s]) < MaxTimers
          /\ FitsStore(addDrinkCart(cart[s], id))
          /\ SetCart(s, addDrinkCart(cart[s], id))
          /\ cheeseTimer' = [cheeseTimer EXCEPT ![s] = Append(@, id)]
     ELSE /\ SetCart(s, addCheeseToDrinkCart(cart[s], id))
          /\ UNCHANGED cheeseTimer
  /\ CartOnly(s, "drinkCheese")

\* setTimeout(() => addCheeseToDrink(d.id), 0) fires: timers of equal delay
\* run in the order they were set
CheeseTimerFire(s, id) ==
  /\ cheeseTimer[s] # <<>> /\ Head(cheeseTimer[s]) = id
  /\ SetCart(s, addCheeseToDrinkCart(cart[s], id))
  /\ cheeseTimer' = [cheeseTimer EXCEPT ![s] = Tail(@)]
  /\ CartOnly(s, "addCheeseToDrink")

IsSouffleSku(sku) == sku \in { skuOf(f) : f \in FlavorSet }

\* the Add Cheese button of a souffle line
SouffleCheeseClick(s, sku) ==
  /\ CustomerView(s)
  /\ HasSku(cart[s], sku) /\ IsSouffleSku(sku)
  /\ FitsStore(addCheeseToSouffleCart(cart[s], sku))
  /\ SetCart(s, addCheeseToSouffleCart(cart[s], sku))
  /\ UNCHANGED cheeseTimer
  /\ CartOnly(s, "addCheeseToSouffle")

\* the + button of a line
IncClick(s, sku) ==
  /\ CustomerView(s)
  /\ HasSku(cart[s], sku)
  /\ FitsStore(incCart(cart[s], sku))
  /\ SetCart(s, incCart(cart[s], sku))
  /\ UNCHANGED cheeseTimer
  /\ CartOnly(s, "inc")

\* the - button of a line
DecClick(s, sku) ==
  /\ CustomerView(s)
  /\ HasSku(cart[s], sku)
  /\ SetCart(s, decCart(cart[s], sku))
  /\ UNCHANGED cheeseTimer
  /\ CartOnly(s, "dec")

\* the Clear buttons, shown on a cart that is not empty
ClearClick(s) ==
  /\ CustomerView(s)
  /\ cart[s] # <<>>
  /\ SetCart(s, <<>>)
  /\ UNCHANGED cheeseTimer
  /\ CartOnly(s, "clearCart")

\* the form's onChange handlers
FillForm(s, f) ==
  /\ CustomerView(s)
  /\ f # form[s]
  /\ form' = [form EXCEPT ![s] = f]
  /\ lastOp' = Op("fillForm", s, FALSE)
  /\ UNCHANGED <<now, nowYear, lsOrders, lsOrdersKey, lsSeq, mode, cart, placing, inflight,
                 placed, orders, staffAuthed, storageEvt, cheeseTimer, calls>>

\* submitOrder(): the part that runs in the caller's turn; atClick keeps the
\* cart's value at the call, which the closure's items may drift from
submitOrder(s) ==
  IF cart[s] = <<>>
  THEN /\ lastOp' = Op("submitEmpty", s, FALSE)
       /\ UNCHANGED <<placing, inflight>>
  ELSE IF Trim(form[s].pickupName) = <<>>
  THEN /\ lastOp' = Op("submitBlank", s, FALSE)
       /\ UNCHANGED <<placing, inflight>>
  ELSE /\ Pending(s) < MaxPending
       /\ placing' = [placing EXCEPT ![s] = TRUE]
       /\ inflight' = [inflight EXCEPT ![s] = Schedule(@,
            [active |-> TRUE, items |-> cart[s], subtotal |-> subtotal(cart[s]),
             form |-> form[s], shared |-> SkusWithAddon(cart[s]),
             atClick |-> cart[s]])]
       /\ lastOp' = Op("submitStart", s, FALSE)

SubmitFrame ==
  UNCHANGED <<now, nowYear, lsOrders, lsOrdersKey, lsSeq, mode, cart, form, placed, orders,
              staffAuthed, storageEvt, cheeseTimer, calls>>

\* a variant of the button that stays enabled during a submission
PlaceEnabledWhilePlacing(s) == Len(cart[s]) # 0

\* disabled={items.length === 0 || placing} of the Place Order button
PlaceEnabled(s) == Len(cart[s]) # 0 /\ ~placing[s]

\* room left in the model for one more order
Room == /\ Len(lsOrders) < MaxOrders
        /\ nextSeq(lsSeq, nowYear).n <= MaxSeq

PlaceClick(s) ==
  /\ CustomerView(s)
  /\ PlaceEnabled(s)
  /\ Room
  /\ submitOrder(s)
  /\ SubmitFrame

\* the order object built by the timeout callback
buildOrder(fl, seq, year, t1, t2) ==
  [id        |-> nextQueueNumber(seq, year),
   items     |-> [i \in 1..Len(fl.items) |->
                    [sku |-> fl.items[i].sku, name |-> fl.items[i].name,
                     unitPrice |-> fl.items[i].unitPrice, qty |-> fl.items[i].qty,
                     addons |-> fl.items[i].addons]],
   total     |-> Round2(fl.subtotal),
   status    |-> "New",
   createdAt |-> t1,
   expiresAt |-> t2 + PaymentWindow,
   note      |-> OrUndefined(fl.form.note),
   pickupName |-> Trim(fl.form.pickupName),
   phone     |-> OrUndefined(Trim(fl.form.phone)),
   marketingOptIn |-> fl.form.marketing]

\* the instants at which getAllOrders, called at t2 or later, reads the clock
\* for the createdAt that a stored record lacks; t2 when it does not read it
ClockInRead(stored, t2) ==
  IF Readable(stored) /\ \E i \in 1..Len(stored) : stored[i].createdAt = UndefNum
  THEN { t \in {t2, now + 1} : t >= t2 }
  ELSE {t2}

\* the setTimeout callback of submitOrder; the clock may tick between its
\* Date.now() calls (createdAt, expiresAt, and the one inside getAllOrders).
\* nextQueueNumber reads the store outside any try: where getItem throws,
\* the callback ends there, with nothing written and placing left true
submitCallback(s) ==
  /\ inflight[s].active
  /\ IF GetItemThrows
     THEN /\ inflight' = [inflight EXCEPT ![s] = NextFlight(@)]
          /\ lastOp' = Op("submitThrows", s, FALSE)
          /\ UNCHANGED <<now, lsSeq, lsOrders, lsOrdersKey, orders, placed, storageEvt,
                         cart, form, placing>>
     ELSE /\ \E t2 \in {now, now + 1} : \E t3 \in ClockInRead(lsOrders, t2) :
               /\ t2 \in Times /\ t3 \in Times
               /\ LET order == buildOrder(inflight[s], lsSeq, nowYear, now, t2)
                      next  == createNext(getAllOrders(lsOrders, t3), order)
                  IN /\ lsSeq' = nextSeq(lsSeq, nowYear)
                     /\ lsOrders' = next
                     /\ lsOrdersKey' = TRUE
                     /\ orders' = [orders EXCEPT ![s] = next]
                     /\ placed' = [placed EXCEPT ![s] = order]
                     /\ storageEvt' = Notified(s, TRUE)
               /\ now' = t3
          /\ cart' = [cart EXCEPT ![s] = <<>>]
          /\ form' = [form EXCEPT ![s] = BlankForm]
          /\ placing' = [placing EXCEPT ![s] = FALSE]
          /\ inflight' = [inflight EXCEPT ![s] = NextFlight(@)]
          /\ lastOp' = Op("submitDone", s, TRUE)
  /\ UNCHANGED <<nowYear, mode, staffAuthed, cheeseTimer, calls>>

\* the timeout of submitOrder fires, while the store has room
SubmitFire(s) ==
  /\ Room
  /\ submitCallback(s)

\* the confirmation page's link back to the menu: the page loads again
Reload(s) ==
  /\ mode[s] = "customer" /\ placed[s] # NoOrder
  /\ placed' = [placed EXCEPT ![s] = NoOrder]
  /\ orders' = [orders EXCEPT ![s] = getAllOrders(lsOrders, now)]
  /\ storageEvt' = [storageEvt EXCEPT ![s] = FALSE]
  /\ cheeseTimer' = [cheeseTimer EXCEPT ![s] = <<>>]
  /\ inflight' = [inflight EXCEPT ![s] = NoFlight]
  /\ lastOp' = Op("reload", s, FALSE)
  /\ UNCHANGED <<now, nowYear, lsOrders, lsOrdersKey, lsSeq, mode, cart, form, placing,
                 staffAuthed, calls>>

---------------------------------------------------------------------------
(* Staff board *)

\* place of o in a list sorted by createdAt, newest first, behind its equals
InsertDesc(sorted, o) ==
  LET k == Cardinality({ i \in 1..Len(sorted) : sorted[i].createdAt >= o.createdAt })
  IN SubSeq(sorted, 1, k) \o <<o>> \o SubSeq(sorted, k + 1, Len(sorted))

\* [...orders].sort((a, b) => b.createdAt - a.createdAt), a stable sort
RECURSIVE SortDesc(_)
SortDesc(os) ==
  IF os = <<>> THEN <<>>
  ELSE InsertDesc(SortDesc(SubSeq(os, 1, Len(os) - 1)), os[Len(os)])

Filters == {"Active", "All"} \cup Statuses

\* filtered of StaffBoard
filtered(os, filter) ==
  LET base == SortDesc(os) IN
  IF filter = "All" THEN base
  ELSE IF filter = "Active"
  THEN SelectSeq(base, LAMBDA o : o.status \in {"New", "Paid", "Preparing", "Ready"})
  ELSE SelectSeq(base, LAMBDA o : o.status = filter)

Targets == {"Paid", "Preparing", "Ready", "Done", "Cancelled"}

\* the conditions under which an order card renders the button of a status
ButtonShown(status, target) ==
  IF target = "Paid" THEN status = "New" ELSE status # target

\* the board is what App renders, behind the PIN
BoardView(s) == mode[s] = "staff" /\ staffAuthed[s]

\* the cards on the board under some filter
Cards(s) == UNION { Range(filtered(orders[s], f)) : f \in Filters }

StaffFrame ==
  UNCHANGED <<now, nowYear, mode, cart, form, placing, inflight, placed,
              staffAuthed, cheeseTimer, calls>>

\* onClick={() => setAuthed(pin === "1234")}
Login(s, pin) ==
  /\ mode[s] = "staff" /\ ~staffAuthed[s]
  /\ staffAuthed' = [staffAuthed EXCEPT ![s] = (pin = "1234")]
  /\ lastOp' = Op("login", s, FALSE)
  /\ UNCHANGED <<now, nowYear, lsOrders, lsOrdersKey, lsSeq, mode, cart, form, placing,
                 inflight, placed, orders, storageEvt, cheeseTimer, calls>>

\* a variant of updateOrder that leaves the list to the next notification
updateOrderNoSet(s, id, st) ==
  LET next == updateNext(getAllOrders(lsOrders, now), id, st)
  IN /\ saveAllOrders(s, next)
     /\ UNCHANGED orders
     /\ UNCHANGED lsSeq

\* updateOrder(id, {status: st}) of App
updateOrder(s, id, st) ==
  LET next == updateNext(getAllOrders(lsOrders, now), id, st)
  IN /\ saveAllOrders(s, next)
     /\ orders' = [orders EXCEPT ![s] = next]
     /\ UNCHANGED lsSeq

\* a status button of the card of order o
StatusClick(s, id, st) ==
  /\ BoardView(s)
  /\ \E o \in Cards(s) : o.id = id /\ ButtonShown(o.status, st)
  /\ \/ /\ updateOrder(s, id, st)
        /\ lastOp' = [op |-> "updateOrder", wrote |-> TRUE, to |-> st,
                       from |-> { o.status : o \in { x \in Range(getAllOrders(lsOrders, now)) :
                                                        x.id = id } }]
     \/ saveAllOrdersThrows(s, "updateOrder")
  /\ StaffFrame

\* deleteOrder(id) of App
deleteOrder(s, id) ==
  LET next == deleteNext(getAllOrders(lsOrders, now), id)
  IN /\ saveAllOrders(s, next)
     /\ orders' = [orders EXCEPT ![s] = next]
     /\ UNCHANGED lsSeq

\* the Delete button of a card
DeleteClick(s, id) ==
  /\ BoardView(s)
  /\ \E o \in Cards(s) : o.id = id
  /\ \/ deleteOrder(s, id) /\ lastOp' = Op("deleteOrder", s, TRUE)
     \/ saveAllOrdersThrows(s, "deleteOrder")
  /\ StaffFrame

\* a variant of wipeAll that leaves the queue sequence in place
wipeKeepSeq(s, ok) ==
  IF ok
  THEN /\ saveAllOrders(s, <<>>)
       /\ orders' = [orders EXCEPT ![s] = <<>>]
       /\ UNCHANGED lsSeq
       /\ lastOp' = Op("wipeAll", s, TRUE)
  ELSE /\ UNCHANGED <<lsOrders, lsOrdersKey, orders, lsSeq, storageEvt>>
       /\ lastOp' = Op("wipeDeclined", s, FALSE)

\* wipeAll of App; ok is the answer to confirm()
wipeAll(s, ok) ==
  IF ok
  THEN /\ lsOrders' = IF GetItemThrows THEN lsOrders ELSE <<>>
       /\ lsOrdersKey' = TRUE
       /\ orders' = [orders EXCEPT ![s] = <<>>]
       /\ lsSeq' = NoSeq
       /\ \E changed \in SaveChanges(<<>>) :
            storageEvt' = Notified(s, changed \/ lsSeq # NoSeq)
       /\ lastOp' = Op("wipeAll", s, TRUE)
  ELSE /\ UNCHANGED <<lsOrders, lsOrdersKey, orders, lsSeq, storageEvt>>
       /\ lastOp' = Op("wipeDeclined", s, FALSE)

\* the Clear All buttons
WipeClick(s, ok) ==
  /\ BoardView(s)
  /\ \/ wipeAll(s, ok)
     \/ ok /\ saveAllOrdersThrows(s, "wipeAll")
  /\ StaffFrame

---------------------------------------------------------------------------
(* Every session: the expiry sweep and the storage subscription *)

\* the setInterval callback of App's effect
SweepTick(s) ==
  LET current == getAllOrders(lsOrders, now)
      next    == sweepNext(current, now)
  IN /\ IF sweepMutated(current, now)
        THEN /\ saveAllOrders(s, next)
             /\ orders' = [orders EXCEPT ![s] = next]
             /\ lastOp' = Op("sweep", s, TRUE)
        ELSE /\ UNCHANGED <<lsOrders, lsOrdersKey, orders, storageEvt>>
             /\ lastOp' = Op(IF lastOp.op = "sweep" /\ lastOp.wrote
                             THEN "sweepAfterSweep" ELSE "sweep", s, FALSE)
     /\ UNCHANGED <<now, nowYear, lsSeq, mode, cart, form, placing, inflight,
                    placed, staffAuthed, cheeseTimer, calls>>

\* handler of subscribeOrders: cb(getAllOrders()) on a "storage" event
StorageDeliver(s) ==
  /\ storageEvt[s]
  /\ storageEvt' = [storageEvt EXCEPT ![s] = FALSE]
  /\ orders' = [orders EXCEPT ![s] = getAllOrders(lsOrders, now)]
  /\ lastOp' = Op("storage", s, FALSE)
  /\ UNCHANGED <<now, nowYear, lsOrders, lsOrdersKey, lsSeq, mode, cart, form, placing,
                 inflight, placed, staffAuthed, cheeseTimer, calls>>

---------------------------------------------------------------------------
(* The clock *)

\* time passes to a later instant; newYear: it passes 1 January on the way
AdvanceTime(t, newYear) ==
  /\ t > now
  /\ now' = t
  /\ IF newYear
     THEN nowYear < BaseYear + MaxYears /\ nowYear' = nowYear + 1
     ELSE UNCHANGED nowYear
  /\ lastOp' = Op("clock", "c1", FALSE)
  /\ UNCHANGED <<lsOrders, lsOrdersKey, lsSeq, mode, cart, form, placing, inflight, placed,
                 orders, staffAuthed, storageEvt, cheeseTimer, calls>>

---------------------------------------------------------------------------
(* The program: customers order, staff work the board, timers fire *)

\* the forms typed in when staff and timers run too
StoreForms == { f \in FormInputs : f.note = <<"n">> }

BoardForms == { f \in FormInputs : f.pickupName = <<"A">> }

\* the store holds at most k orders, a submission under way counted
Holds(k) ==
  \A s \in Sessions :
    Len(lsOrders') + (IF inflight'[s].active THEN 1 ELSE 0) <= k

\* a small cart
Small(k) == \A s \in Customers : CartUnits(cart'[s]) <= k

\* the cart buttons that every specification with a customer uses, up to
\* carts of units units and a store of held orders
CustomerBasic(s, forms, units, held) ==
  \/ \E f \in StoreFlavors : AddFlavor(s, f) /\ Small(units)
  \/ ClearClick(s)
  \/ \E f \in forms : FillForm(s, f)
  \/ PlaceClick(s) /\ Holds(held)
  \/ Reload(s)

\* the other cart buttons
CustomerCart(s) ==
  \/ \E id \in DrinkIds : AddDrink(s, id)
  \/ \E id \in DrinkIds : DrinkCheeseClick(s, id)
  \/ \E id \in DrinkIds : CheeseTimerFire(s, id)
  \/ \E sku \in AllSkus : SouffleCheeseClick(s, sku)
  \/ \E sku \in AllSkus : IncClick(s, sku)
  \/ \E sku \in AllSkus : DecClick(s, sku)

StaffNext(s) ==
  \/ \E pin \in {"1234", "0000"} : Login(s, pin)
  \/ \E id \in { o.id : o \in Range(orders[s]) }, st \in Targets :
       StatusClick(s, id, st)
  \/ \E id \in { o.id : o \in Range(orders[s]) } : DeleteClick(s, id)
  \/ \E ok \in BOOLEAN : WipeClick(s, ok)

(* The whole program, one order at a time: a customer orders, staff work   *)
(* the board, the sweep timers fire, time passes.                          *)
Next ==
  \/ \E s \in Customers : CustomerBasic(s, StoreForms, StoreMaxUnits, StoreMaxOrders)
  \/ \E s \in Customers : SubmitFire(s)
  \/ \E s \in Staff : StaffNext(s)
  \/ \E s \in Sessions : SweepTick(s)
  \/ \E s \in Sessions : StorageDeliver(s)
  \/ \E t \in Times : AdvanceTime(t, FALSE)

Spec == InitLegacy /\ [][Next]_vars

(* The status buttons over several orders, the clock standing still. *)
NextBoard ==
  \/ \E s \in Customers :
       \/ \E f \in StoreFlavors : AddFlavor(s, f) /\ Small(StoreMaxUnits)
       \/ \E f \in BoardForms : FillForm(s, f)
       \/ PlaceClick(s)
       \/ SubmitFire(s) /\ now' = now
       \/ Reload(s)
  \/ \E s \in Staff :
       \/ \E pin \in {"1234", "0000"} : Login(s, pin)
       \/ \E id \in { o.id : o \in Range(orders[s]) }, st \in Targets :
            StatusClick(s, id, st)
  \/ \E s \in Sessions : StorageDeliver(s)

SpecBoard == Init /\ [][NextBoard]_vars

(* The sweep over several orders, no staff. *)
NextSweep ==
  \/ \E s \in Customers : CustomerBasic(s, StoreForms, StoreMaxUnits, MaxOrders)
  \/ \E s \in Customers : SubmitFire(s)
  \/ \E s \in Sessions : SweepTick(s)
  \/ \E s \in Sessions : StorageDeliver(s)
  \/ \E t \in Times : AdvanceTime(t, FALSE)

SpecSweep == Init /\ [][NextSweep]_vars

(* The queue sequence over a change of year: a customer orders, the clock  *)
(* and the calendar advance.                                               *)
NextQueue ==
  \/ \E s \in Customers : CustomerBasic(s, StoreForms, StoreMaxUnits, MaxOrders)
  \/ \E s \in Customers : SubmitFire(s)
  \/ \E t \in Times, newYear \in BOOLEAN : AdvanceTime(t, newYear)

SpecQueue == InitLegacy /\ [][NextQueue]_vars

(* The customer alone: building a cart and turning it into an order. *)
NextOrder ==
  \E s \in Customers :
    \/ CustomerBasic(s, FormInputs, OrderMaxUnits, StoreMaxOrders)
    \/ SubmitFire(s)
    \/ CustomerCart(s)

SpecOrder == Init /\ [][NextOrder]_vars

---------------------------------------------------------------------------
(* The cart engine called directly, as a test would, in session c1 *)

\* the bounds of the cart in these specifications
FitsCart(c) ==
  /\ Len(c) <= MaxLines
  /\ \A i \in 1..Len(c) :
       /\ c[i].qty <= MaxQty
       /\ \A j \in 1..Len(c[i].addons) : c[i].addons[j].qty <= MaxCheese

CallFrame(name) ==
  /\ lastOp' = Op(name, "c1", FALSE)
  /\ UNCHANGED <<now, nowYear, lsOrders, lsOrdersKey, lsSeq, mode, form, placing, placed,
                 orders, staffAuthed, storageEvt, cheeseTimer>>

AddFlavorCall(f) ==
  /\ FitsCart(addFlavorCart(cart["c1"], f))
  /\ SetCart("c1", addFlavorCart(cart["c1"], f))
  /\ calls' = [calls EXCEPT ![skuOf(f)] = @ + 1]
  /\ CallFrame("addFlavor")

AddDrinkCall(id) ==
  /\ FitsCart(addDrinkCart(cart["c1"], id))
  /\ SetCart("c1", addDrinkCart(cart["c1"], id))
  /\ calls' = [calls EXCEPT ![id] = @ + 1]
  /\ CallFrame("addDrink")

AddCheeseToDrinkCall(sku) ==
  /\ SetCart("c1", addCheeseToDrinkCart(cart["c1"], sku))
  /\ UNCHANGED calls
  /\ CallFrame(IF addCheeseToDrinkCart(cart["c1"], sku) = cart["c1"]
               THEN "addCheeseToDrinkSame" ELSE "addCheeseToDrink")

\* the flavours called with: one at the base price, two with a priceDelta
CallFlavors == { f \in FlavorSet : f.id \in {"van", "mat", "bis"} }

(* addFlavor, addDrink and addCheeseToDrink in any order *)
NextAdd ==
  \/ \E f \in CallFlavors : AddFlavorCall(f)
  \/ \E id \in DrinkIds : AddDrinkCall(id)
  \/ \E sku \in AllSkus : AddCheeseToDrinkCall(sku)

SpecAdd == Init /\ [][NextAdd]_vars

---------------------------------------------------------------------------
(* Every cart function called directly, with any sku, in any order *)

\* the name under which a call on sku is recorded
CallName(name, sku) ==
  IF HasSku(cart["c1"], sku) THEN name ELSE name \o "Absent"

\* a cart function has returned c
CartCall(name, c) ==
  /\ SetCart("c1", c)
  /\ UNCHANGED calls
  /\ CallFrame(name)

CartAddFlavor(f) ==
  /\ FitsCart(addFlavorCart(cart["c1"], f))
  /\ CartCall("addFlavor", addFlavorCart(cart["c1"], f))

CartAddDrink(id) ==
  /\ FitsCart(addDrinkCart(cart["c1"], id))
  /\ CartCall("addDrink", addDrinkCart(cart["c1"], id))

CartAddCheeseToSouffle(sku) ==
  /\ FitsCart(addCheeseToSouffleCart(cart["c1"], sku))
  /\ CartCall(CallName("addCheeseToSouffle", sku),
              addCheeseToSouffleCart(cart["c1"], sku))

CartAddCheeseToDrink(sku) ==
  /\ FitsCart(addCheeseToDrinkCart(cart["c1"], sku))
  /\ CartCall(CallName("addCheeseToDrink", sku),
              addCheeseToDrinkCart(cart["c1"], sku))

CartInc(sku) ==
  /\ FitsCart(incCart(cart["c1"], sku))
  /\ CartCall(CallName("inc", sku), incCart(cart["c1"], sku))

CartDec(sku) ==
  /\ FitsCart(decCart(cart["c1"], sku))
  /\ CartCall(IF \E i \in 1..Len(cart["c1"]) :
                   cart["c1"][i].sku = sku /\ cart["c1"][i].qty = 1
              THEN "decLast" ELSE CallName("dec", sku),
              decCart(cart["c1"], sku))

CartClear ==
  /\ SetCart("c1", <<>>)
  /\ UNCHANGED calls
  /\ CallFrame("clearCart")

\* the skus called with: two flavours and the drink
CallSkus == { skuOf(f) : f \in { x \in CallFlavors : x.id # "bis" } } \cup DrinkIds

NextCart ==
  \/ \E f \in { x \in CallFlavors : skuOf(x) \in CallSkus } : CartAddFlavor(f)
  \/ \E id \in DrinkIds : CartAddDrink(id)
  \/ \E sku \in CallSkus : CartAddCheeseToSouffle(sku)
  \/ \E sku \in CallSkus : CartAddCheeseToDrink(sku)
  \/ \E sku \in CallSkus : CartInc(sku)
  \/ \E sku \in CallSkus : CartDec(sku)
  \/ CartClear

SpecCart == Init /\ [][NextCart]_vars

---------------------------------------------------------------------------
(* submitOrder called directly on a cart and a form drawn from samples *)

SampleCarts ==
  LET one == { addFlavorCart(<<>>, f) : f \in FlavorSet }
             \cup { addDrinkCart(<<>>, id) : id \in DrinkIds }
  IN {<<>>} \cup one
     \cup { addCheeseToDrinkCart(c, c[1].sku) : c \in one }
     \cup { addDrinkCart(c, "drink-hojicha") : c \in one }

InitSubmit ==
  \E c \in SampleCarts, f \in FormInputs :
    \/ InitState(<<>>, NoSeq, c, f)
    \/ InitState(<<LegacyOrder>>, [y |-> BaseYear, n |-> 1], c, f)

SubmitCall(s) ==
  /\ submitOrder(s)
  /\ SubmitFrame

NextSubmit ==
  \/ \E s \in Customers : SubmitCall(s)
  \/ \E s \in Customers : SubmitFire(s)

SpecSubmit == InitSubmit /\ [][NextSubmit]_vars

---------------------------------------------------------------------------
(* Submissions into a store that is nearly full or full *)

\* the order numbered k, as submitOrder stores it
FullOrder(k) ==
  [id |-> "Q-" \o padStart3(k),
   items |-> << [sku |-> "souffle-van", name |-> "Souffle - Vanilla",
                 unitPrice |-> 12000, qty |-> 1, addons |-> <<>>] >>,
   total |-> 12000, status |-> "New", createdAt |-> 0, expiresAt |-> PaymentWindow,
   note |-> UndefText, pickupName |-> <<"B">>, phone |-> UndefText,
   marketingOptIn |-> TRUE]

\* the store after n submissions, newest first
FullStore(n) == [i \in 1..n |-> FullOrder(n - i + 1)]

InitCap ==
  \E n \in {STORE_CAP - 2, STORE_CAP - 1, STORE_CAP} :
    InitWith(FullStore(n), [y |-> BaseYear, n |-> n])

\* numbers left in the model past the cap
CapRoom == nextSeq(lsSeq, nowYear).n <= STORE_CAP + MaxSeq

CapPlace(s) ==
  /\ CustomerView(s)
  /\ PlaceEnabled(s)
  /\ CapRoom
  /\ submitOrder(s)
  /\ SubmitFrame

CapFire(s) ==
  /\ CapRoom
  /\ submitCallback(s)

NextCap ==
  \/ \E s \in Customers, f \in StoreFlavors : AddFlavor(s, f) /\ Small(StoreMaxUnits)
  \/ \E s \in Customers : ClearClick(s)
  \/ \E s \in Customers, f \in StoreForms : FillForm(s, f)
  \/ \E s \in Customers : CapPlace(s)
  \/ \E s \in Customers : CapFire(s)
  \/ \E s \in Customers : Reload(s)

SpecCap == InitCap /\ [][NextCap]_vars

---------------------------------------------------------------------------
(* Two customer tabs of one browser submitting at once.  localStorage has  *)
(* no read-modify-write: between the getItem and the setItem of one tab's  *)
(* callback another tab, running in its own process, may read or write     *)
(* the same key.  The callback of submitOrder is taken one storage access  *)
(* at a time.                                                              *)

RaceForm == CHOOSE f \in FormInputs : f.pickupName = <<"A">>

\* both tabs opened without ?mode=staff
InitRace ==
  /\ now = 0
  /\ nowYear = BaseYear
  /\ lsOrders = <<>>
  /\ lsOrdersKey = FALSE
  /\ lsSeq = NoSeq
  /\ mode = [s \in Sessions |-> "customer"]
  /\ cart = [s \in Sessions |-> <<>>]
  /\ form = [s \in Sessions |-> BlankForm]
  /\ placing = [s \in Sessions |-> FALSE]
  /\ inflight = [s \in Sessions |-> NoFlight]
  /\ placed = [s \in Sessions |-> NoOrder]
  /\ orders = [s \in Sessions |-> <<>>]
  /\ staffAuthed = [s \in Sessions |-> FALSE]
  /\ storageEvt = [s \in Sessions |-> FALSE]
  /\ cheeseTimer = [s \in Sessions |-> <<>>]
  /\ calls = [k \in AllSkus |-> 0]
  /\ lastOp = NoOp

\* where the callback of session s stands: "timer" before it runs
PcOf(s) == IF "pc" \in DOMAIN inflight[s] THEN inflight[s].pc ELSE "timer"

\* no handler of tab s is under way: a handler runs to its end before the
\* tab dispatches its next event (a click, a timer, a "storage" event)
Idle(s) == PcOf(s) = "timer"

RaceFrame(s, name) ==
  /\ lastOp' = Op(name, s, FALSE)
  /\ UNCHANGED <<now, nowYear, mode, cart, form, placing, placed, orders,
                 staffAuthed, cheeseTimer, calls>>

\* nextQueueNumber: localStorage.getItem(LS_SEQ_KEY)
RaceGetSeq(s) ==
  /\ inflight[s].active /\ PcOf(s) = "timer"
  /\ inflight' = [inflight EXCEPT ![s] = [pc |-> "gotSeq", seqSeen |-> lsSeq] @@ @]
  /\ UNCHANGED <<lsOrders, lsOrdersKey, lsSeq, storageEvt>>
  /\ RaceFrame(s, "getSeq")

\* nextQueueNumber: localStorage.setItem(LS_SEQ_KEY, ...)
RaceSetSeq(s) ==
  /\ inflight[s].active /\ PcOf(s) = "gotSeq"
  /\ lsSeq' = nextSeq(inflight[s].seqSeen, nowYear)
  /\ storageEvt' = Notified(s, lsSeq' # lsSeq)
  /\ inflight' = [inflight EXCEPT ![s] = [@ EXCEPT !.pc = "setSeq"]]
  /\ UNCHANGED <<lsOrders, lsOrdersKey>>
  /\ RaceFrame(s, "setSeq")

\* getAllOrders() of [order, ...getAllOrders()]
RaceGetOrders(s) ==
  /\ inflight[s].active /\ PcOf(s) = "setSeq"
  /\ inflight' = [inflight EXCEPT ![s] =
        [pc |-> "gotOrders", seen |-> getAllOrders(lsOrders, now)] @@
        [x \in DOMAIN @ \ {"pc"} |-> @[x]]]
  /\ UNCHANGED <<lsOrders, lsOrdersKey, lsSeq, storageEvt>>
  /\ RaceFrame(s, "getOrders")

\* a variant in which the collection is read again as it is written
RaceSaveFresh(s) ==
  /\ inflight[s].active /\ PcOf(s) = "gotOrders"
  /\ LET order == buildOrder(inflight[s], inflight[s].seqSeen, nowYear, now, now)
         next  == createNext(getAllOrders(lsOrders, now), order)
     IN /\ saveAllOrders(s, next)
        /\ orders' = [orders EXCEPT ![s] = next]
        /\ placed' = [placed EXCEPT ![s] = order]
  /\ cart' = [cart EXCEPT ![s] = <<>>]
  /\ form' = [form EXCEPT ![s] = BlankForm]
  /\ placing' = [placing EXCEPT ![s] = FALSE]
  /\ inflight' = [inflight EXCEPT ![s] = NextFlight(@)]
  /\ lastOp' = Op("submitDone", s, TRUE)
  /\ UNCHANGED <<now, nowYear, lsSeq, mode, staffAuthed, cheeseTimer, calls>>

\* saveAllOrders(next) and the setters behind it
RaceSave(s) ==
  /\ inflight[s].active /\ PcOf(s) = "gotOrders"
  /\ LET order == buildOrder(inflight[s], inflight[s].seqSeen, nowYear, now, now)
         next  == createNext(inflight[s].seen, order)
     IN /\ saveAllOrders(s, next)
        /\ orders' = [orders EXCEPT ![s] = next]
        /\ placed' = [placed EXCEPT ![s] = order]
  /\ cart' = [cart EXCEPT ![s] = <<>>]
  /\ form' = [form EXCEPT ![s] = BlankForm]
  /\ placing' = [placing EXCEPT ![s] = FALSE]
  /\ inflight' = [inflight EXCEPT ![s] = NextFlight(@)]
  /\ lastOp' = Op("submitDone", s, TRUE)
  /\ UNCHANGED <<now, nowYear, lsSeq, mode, staffAuthed, cheeseTimer, calls>>

NextRace ==
  \/ \E s \in Sessions, f \in StoreFlavors :
       Idle(s) /\ AddFlavor(s, f) /\ CartUnits(cart'[s]) <= StoreMaxUnits
  \/ \E s \in Sessions : Idle(s) /\ FillForm(s, RaceForm)
  \/ \E s \in Sessions : Idle(s) /\ PlaceClick(s)
  \/ \E s \in Sessions : RaceGetSeq(s)
  \/ \E s \in Sessions : RaceSetSeq(s)
  \/ \E s \in Sessions : RaceGetOrders(s)
  \/ \E s \in Sessions : RaceSave(s)
  \/ \E s \in Sessions : Idle(s) /\ Reload(s)

SpecRace == InitRace /\ [][NextRace]_vars

---------------------------------------------------------------------------
(* Claims *)

SameOrder(a, b) == a.id = b.id /\ a.createdAt = b.createdAt

IsTerminal(st) == st \in {"Done", "Cancelled"}

\* C1: once a persisted order is Done or Cancelled, no step changes its
\* status again; the order can only disappear.
C1_TerminalStays ==
  [][ \A a \in Range(lsOrders) : \A b \in Range(lsOrders') :
        IsTerminal(a.status) /\ SameOrder(a, b) => b.status = a.status ]_vars

\* C2: a sweep changes a stored order only if, before it, the order was New,
\* had an expiresAt, and the time was strictly greater than expiresAt.
C2_SweepOnlyOverdue ==
  [][ (\E s \in Sessions : SweepTick(s)) =>
        /\ Len(lsOrders') = Len(lsOrders)
        /\ \A i \in 1..Len(lsOrders) :
             lsOrders'[i] # lsOrders[i] =>
               /\ lsOrders[i].status = "New"
               /\ lsOrders[i].expiresAt # UndefNum
               /\ now > lsOrders[i].expiresAt ]_vars

\* C2 witness: a sweep has just cancelled an order one millisecond past its
\* expiresAt.
C2_Witness ==
  /\ lastOp.op = "sweep" /\ lastOp.wrote
  /\ \E o \in Range(lsOrders) : o.status = "Cancelled" /\ now = o.expiresAt + 1

OverdueNew(o) == o.status = "New" /\ o.expiresAt # UndefNum /\ now > o.expiresAt

\* C3: a sweep at a time later than expiresAt sets every overdue New order to
\* Cancelled, and a sweep that directly follows a sweep changes no order and
\* writes nothing.
C3_SweepCancelsAll ==
  [][ (\E s \in Sessions : SweepTick(s)) =>
        /\ Len(lsOrders') = Len(lsOrders)
        /\ \A i \in 1..Len(lsOrders) :
             OverdueNew(lsOrders[i]) => lsOrders'[i].status = "Cancelled"
        /\ lastOp.op \in {"sweep", "sweepAfterSweep"} =>
             /\ lsOrders' = lsOrders
             /\ storageEvt' = storageEvt
             /\ ~lastOp'.wrote ]_vars

\* C3 witness: an idle sweep directly after a sweep that wrote, with two
\* orders cancelled by expiry.
C3_Witness ==
  /\ lastOp.op = "sweepAfterSweep"
  /\ Len(lsOrders) = 2
  /\ \A o \in Range(lsOrders) : o.status = "Cancelled" /\ now > o.expiresAt

\* the step is a click of the st button of order id; the first two conjuncts
\* follow from the third and come first to decide the other steps early
Clicked(s, id, st) ==
  /\ lastOp'.op = "updateOrder"
  /\ lastOp'.to = st
  /\ StatusClick(s, id, st)

NonTerminal == {"New", "Paid", "Preparing", "Ready"}

\* C4: from every non-terminal status, updateOrder accepts each of Paid,
\* Preparing, Ready, Done and Cancelled and persists it, skipping over
\* intermediate statuses; a status button click stores the clicked status.
C4_AnyTransition ==
  /\ [](\A i \in 1..Len(lsOrders) : \A st \in Targets :
          lsOrders[i].status \in NonTerminal =>
            updateNext(getAllOrders(lsOrders, now), lsOrders[i].id, st)[i].status = st)
  /\ [][ \A s \in Staff : \A id \in { o.id : o \in Range(lsOrders) } : \A st \in Targets :
           Clicked(s, id, st) =>
             \A i \in 1..Len(lsOrders) :
               lsOrders[i].id = id => lsOrders'[i].status = st ]_vars

\* C4 witness: an order has just gone from New directly to Ready.
C4_Witness ==
  /\ lastOp.op = "updateOrder"
  /\ lastOp.from = {"New"} /\ lastOp.to = "Ready"
  /\ \E o \in Range(lsOrders) : o.status = "Ready"

\* C5: a status transition changes only the status field of the order with
\* the given id; the other orders, the length and the order of the collection
\* stay as they were.
C5_OnlyStatusChanges ==
  [][ \A s \in Staff : \A id \in { o.id : o \in Range(lsOrders) } : \A st \in Targets :
        Clicked(s, id, st) =>
          /\ Len(lsOrders') = Len(lsOrders)
          /\ \A i \in 1..Len(lsOrders) :
               /\ lsOrders[i].id # id => lsOrders'[i] = lsOrders[i]
               /\ lsOrders[i].id = id =>
                    lsOrders'[i] = [lsOrders[i] EXCEPT !.status = st] ]_vars

\* C5 witness: with two orders stored, a transition has just moved one of
\* them while the other has a different status.
C5_Witness ==
  /\ lastOp.op = "updateOrder"
  /\ Len(lsOrders) = 2
  /\ lsOrders[1].status # lsOrders[2].status
  /\ \E o \in Range(lsOrders) : o.status = lastOp.to /\ lastOp.from # {lastOp.to}

\* C6: the total of every persisted order equals the sum over its items of
\* unitPrice * qty plus the sum over add-ons of price * qty.
C6_TotalMatchesItems ==
  \A o \in Range(lsOrders) : o.total = Round2(subtotal(o.items))

\* C7: every persisted order that has an expiresAt has
\* expiresAt = createdAt + PAYMENT_WINDOW.
C7_ExpiresAtWindow ==
  \A o \in Range(lsOrders) :
    o.expiresAt # UndefNum => o.expiresAt = o.createdAt + PAYMENT_WINDOW_MIN * 60 * 1000

AllSpaces(t) == \A k \in 1..Len(t) : t[k] \in WhiteSpace

\* C8: submitOrder with an empty cart, or with a pickup name that is empty or
\* only whitespace, creates no order, writes nothing, leaves the sequence
\* counter and the cart as they were.
C8_RejectedSubmit ==
  [][ \A s \in Customers :
        SubmitCall(s) /\ (cart[s] = <<>> \/ AllSpaces(form[s].pickupName)) =>
          /\ lsOrders' = lsOrders
          /\ lsSeq' = lsSeq
          /\ cart' = cart
          /\ inflight' = inflight /\ placing' = placing
          /\ placed' = placed
          /\ ~lastOp'.wrote ]_vars

\* C8 witness: submitOrder has just returned on a name of a space and a tab,
\* with a non-empty cart, next to a non-empty store.
C8_Witness ==
  /\ lastOp.op = "submitBlank"
  /\ cart["c1"] # <<>>
  /\ form["c1"].pickupName = <<" ", "\t">>
  /\ lsOrders # <<>>

LinesOf(c, sku) == { i \in 1..Len(c) : c[i].sku = sku }

\* C9: after any sequence of addFlavor and addDrink calls from an empty cart,
\* the cart has exactly one line per sku that was added, with qty equal to the
\* number of calls for that sku, and no other line.
C9_OneLinePerSku ==
  \A sku \in AllSkus :
    IF calls[sku] = 0
    THEN LinesOf(cart["c1"], sku) = {}
    ELSE /\ Cardinality(LinesOf(cart["c1"], sku)) = 1
         /\ \A i \in LinesOf(cart["c1"], sku) : cart["c1"][i].qty = calls[sku]

\* C9 witness: two lines, one of them added three times.
C9_Witness ==
  /\ Len(cart["c1"]) = 2
  /\ \E sku \in AllSkus : calls[sku] = 3
  /\ \E sku \in AllSkus : calls[sku] = 1

CheeseQty(line) ==
  IF HasAddon(line.addons, CHEESE.id)
  THEN (CHOOSE a \in Range(line.addons) : a.id = CHEESE.id).qty
  ELSE 0

\* C10: under any interleaving of addDrink and addCheeseToDrink, the add-on
\* qty of a drink line never exceeds the drink qty, and addCheeseToDrink on a
\* line whose add-on qty equals its qty leaves the add-on qty unchanged.
C10_CheeseCap ==
  /\ [](\A i \in 1..Len(cart["c1"]) :
          cart["c1"][i].sku \in DrinkIds =>
            CheeseQty(cart["c1"][i]) <= cart["c1"][i].qty)
  /\ [][ \A sku \in DrinkIds :
           /\ AddCheeseToDrinkCall(sku)
           /\ \E i \in 1..Len(cart["c1"]) :
                cart["c1"][i].sku = sku /\ CheeseQty(cart["c1"][i]) = cart["c1"][i].qty
           => cart' = cart ]_vars

\* C10 witness: addCheeseToDrink has just returned without effect on a drink
\* line of qty 2 carrying 2 cheese.
C10_Witness ==
  /\ lastOp.op = "addCheeseToDrinkSame"
  /\ \E i \in 1..Len(cart["c1"]) :
       /\ cart["c1"][i].sku \in DrinkIds
       /\ cart["c1"][i].qty = 2
       /\ CheeseQty(cart["c1"][i]) = 2

\* C11: under addDrink, addCheeseToDrink, inc, dec and clearCart in any
\* order, the cheese qty of a drink line never exceeds the line's qty.
C11_CheeseWithinQty ==
  \A i \in 1..Len(cart["c1"]) :
    cart["c1"][i].sku \in DrinkIds =>
      CheeseQty(cart["c1"][i]) <= cart["c1"][i].qty

QtyOf(c, sku) ==
  IF LinesOf(c, sku) = {} THEN 0 ELSE c[CHOOSE i \in LinesOf(c, sku) : TRUE].qty

\* C12: every line of the cart has qty >= 1; dec on a line of qty 1 removes
\* the line, and dec on a line of qty > 1 lowers its qty by exactly 1.
C12_QtyAtLeastOne ==
  /\ [](\A i \in 1..Len(cart["c1"]) : cart["c1"][i].qty >= 1)
  /\ [][ \A sku \in CallSkus :
           lastOp'.op \in {"dec", "decLast"} /\ CartDec(sku) /\ QtyOf(cart["c1"], sku) >= 1 =>
             /\ QtyOf(cart'["c1"], sku) = QtyOf(cart["c1"], sku) - 1
             /\ QtyOf(cart["c1"], sku) = 1 => LinesOf(cart'["c1"], sku) = {}
             /\ \A other \in CallSkus \ {sku} :
                  QtyOf(cart'["c1"], other) = QtyOf(cart["c1"], other) ]_vars

\* C12 witness: dec has just removed a line of qty 1 and left the other line.
C12_Witness ==
  /\ lastOp.op = "decLast"
  /\ Len(cart["c1"]) = 1
  /\ cart["c1"][1].qty = 2

\* C13: inc, dec, addCheeseToSouffle and addCheeseToDrink called with a sku
\* that is not in the cart, the empty cart included, leave the cart unchanged.
C13_AbsentSkuNoop ==
  [][ \A sku \in CallSkus :
        /\ LinesOf(cart["c1"], sku) = {}
        /\ \/ CartInc(sku) \/ CartDec(sku)
           \/ CartAddCheeseToSouffle(sku) \/ CartAddCheeseToDrink(sku)
        => cart' = cart ]_vars

\* C13 witness: inc has just returned on a sku missing from a cart that
\* holds another line.
C13_Witness ==
  /\ lastOp.op = "incAbsent"
  /\ Len(cart["c1"]) = 1

\* the sum of the lines from the first to the last, add-ons unit by unit
RECURSIVE LiteralSum(_)
LiteralSum(c) ==
  IF c = <<>> THEN 0
  ELSE LET l == Head(c)
           RECURSIVE units(_, _)
           units(a, n) == IF n = 0 THEN 0 ELSE a.price + units(a, n - 1)
           RECURSIVE each(_)
           each(as) == IF as = <<>> THEN 0
                       ELSE units(Head(as), Head(as).qty) + each(Tail(as))
       IN l.unitPrice * l.qty + each(l.addons) + LiteralSum(Tail(c))

\* C14: subtotal of every cart is the sum over its lines of unitPrice * qty
\* plus price * qty of each add-on of the line; the empty cart gives 0.
C14_SubtotalIsSum ==
  /\ subtotal(cart["c1"]) = LiteralSum(cart["c1"])
  /\ cart["c1"] = <<>> => subtotal(cart["c1"]) = 0

\* C14 witness: the cart [12.00 x 2, 3.00 x 1 with one 2.00 add-on], whose
\* subtotal is 29.00.
C14_Witness ==
  /\ Len(cart["c1"]) = 2
  /\ cart["c1"][1].unitPrice = 12000 /\ cart["c1"][1].qty = 2
  /\ cart["c1"][1].addons = <<>>
  /\ cart["c1"][2].unitPrice = 3000 /\ cart["c1"][2].qty = 1
  /\ CheeseQty(cart["c1"][2]) = 1
  /\ subtotal(cart["c1"]) = 29000

\* the queue numbers, written out
QueueIds == << "Q-001", "Q-002", "Q-003", "Q-004", "Q-005" >>

NumberOf(id) == CHOOSE k \in 1..Len(QueueIds) : QueueIds[k] = id

\* the counter that stands in the store, 0 when there is none
StoredN == IF lsSeq = NoSeq THEN 0 ELSE lsSeq.n

\* C15: within one calendar year and with no wipeAll in between, the queue
\* numbers issued go Q-001, Q-002, ... by steps of 1, whatever status updates
\* and deletions come in between; the number of a deleted order is not issued
\* again.
C15_QueueNumbersIncrease ==
  /\ [](lsSeq # NoSeq /\ lsSeq.y = nowYear =>
          \A o \in Range(lsOrders) : NumberOf(o.id) <= lsSeq.n)
  /\ [][ lastOp'.op = "submitDone" /\ (lsSeq = NoSeq \/ lsSeq.y = nowYear) =>
           /\ lsOrders'[1].id = QueueIds[StoredN + 1]
           /\ lsSeq' = [y |-> nowYear, n |-> StoredN + 1] ]_vars

\* C15 witness: Q-002 has just been issued after the order Q-001 was deleted.
C15_Witness ==
  /\ lastOp.op = "submitDone"
  /\ Len(lsOrders) = 1
  /\ lsOrders[1].id = "Q-002"

\* C16: when the calendar year differs from the year stored with the queue
\* sequence, the next queue number issued is Q-001 and the stored year
\* becomes the calendar year.
C16_YearRollover ==
  [][ lastOp'.op = "submitDone" /\ lsSeq # NoSeq /\ lsSeq.y # nowYear =>
        /\ lsOrders'[1].id = "Q-001"
        /\ lsSeq' = [y |-> nowYear, n |-> 1] ]_vars

\* C16 witness: an order of the new year has been numbered Q-001 while the
\* store still holds last year's Q-001.
C16_Witness ==
  /\ lastOp.op = "submitDone"
  /\ lsSeq = [y |-> BaseYear + 1, n |-> 1]
  /\ Len(lsOrders) = 2
  /\ lsOrders[1].id = "Q-001" /\ lsOrders[2].id = "Q-001"

\* C17: with no change of year and no wipeAll, no two persisted orders have
\* the same id, also when two sessions submit at overlapping instants.
C17_UniqueIds ==
  \A i \in 1..Len(lsOrders) : \A j \in 1..Len(lsOrders) :
    i # j => lsOrders[i].id # lsOrders[j].id

Least(a, b) == IF a < b THEN a ELSE b

\* C18: a submission puts the new order at the head of the persisted
\* collection, keeps the orders stored before behind it in their order, and
\* cuts the result to 300 by dropping from the tail; the collection never
\* holds more than 300 orders.
C18_PrependAndCap ==
  /\ [](Len(lsOrders) <= 300)
  /\ [][ lastOp'.op = "submitDone" =>
           /\ Len(lsOrders') = Least(Len(lsOrders) + 1, 300)
           /\ lsOrders'[1] = placed'["c1"]
           /\ lsOrders'[1] \notin Range(lsOrders)
           /\ \A k \in 2..Len(lsOrders') : lsOrders'[k] = lsOrders[k - 1] ]_vars

\* C18 witness: a submission into a store of 300 has dropped the oldest
\* order, Q-001, and put Q-301 at the head.
C18_Witness ==
  /\ lastOp.op = "submitDone"
  /\ Len(lsOrders) = 300
  /\ lsOrders[1].id = "Q-301"
  /\ lsOrders[300].id = "Q-002"

---------------------------------------------------------------------------
(* The board with its Delete buttons over several orders, the clock        *)
(* standing still: the customer tab places orders and stays subscribed,    *)
(* staff move the orders through their statuses and delete them.           *)
NextDelete ==
  \/ \E s \in Customers :
       \/ \E f \in StoreFlavors : AddFlavor(s, f) /\ Small(StoreMaxUnits)
       \/ \E f \in BoardForms : FillForm(s, f)
       \/ PlaceClick(s)
       \/ SubmitFire(s) /\ now' = now
       \/ Reload(s)
  \/ \E s \in Staff :
       \/ Login(s, "1234")
       \/ \E id \in { o.id : o \in Range(orders[s]) }, st \in Targets :
            StatusClick(s, id, st)
       \/ \E id \in { o.id : o \in Range(orders[s]) } : DeleteClick(s, id)
  \/ \E s \in Sessions : StorageDeliver(s)

SpecDelete == Init /\ [][NextDelete]_vars

IdsOf(os) == { o.id : o \in Range(os) }

\* os with the orders of that id taken out, the rest as and where they were
Without(os, id, res) ==
  LET kept == { k \in DOMAIN os : os[k].id # id }
  IN /\ id \notin IdsOf(res)
     /\ Len(res) = Cardinality(kept)
     /\ \A k \in kept :
          res[Cardinality({ j \in kept : j <= k })] = os[k]

(* C19: deleteOrder(id) is offered for an order in any status (every card *)
(* of the board has its Delete button); after it neither the persisted    *)
(* collection nor the deleting session's list holds an order of that id   *)
(* and all other orders are unchanged; every other session is notified,   *)
(* and once its notification is delivered its list is the persisted       *)
(* collection, so holds no order of that id either.                       *)
C19_DeleteRemoves ==
  /\ [](\A s \in Staff : BoardView(s) =>
          \A o \in Range(orders[s]) : ENABLED DeleteClick(s, o.id))
  /\ [][ lastOp'.op = "deleteOrder" =>
           \A s \in Staff, id \in Range(QueueIds) :
             DeleteClick(s, id) =>
               /\ Without(lsOrders, id, lsOrders')
               /\ orders'[s] = lsOrders'
               /\ \A x \in Sessions \ {s} :
                    id \in IdsOf(lsOrders) => storageEvt'[x] ]_vars
  /\ [][ lastOp'.op = "storage" =>
           \A x \in Sessions :
             StorageDeliver(x) =>
               /\ orders'[x] = lsOrders
               /\ \A id \in IdsOf(orders[x]) \ IdsOf(lsOrders) :
                    id \notin IdsOf(orders'[x]) ]_vars

\* an order that was Ready has been deleted, the other order is still
\* stored, and the customer tab, which still lists both, is told
C19_Witness ==
  /\ lastOp.op = "deleteOrder"
  /\ Len(lsOrders) = 1
  /\ orders["s1"] = lsOrders
  /\ storageEvt["c1"]
  /\ \E o \in Range(orders["c1"]) : o.status = "Ready" /\ o.id \notin IdsOf(lsOrders)
  /\ lsOrders[1] \in Range(orders["c1"])

\* the notification has reached the customer tab, whose list has lost the
\* deleted order
C19_Delivered ==
  /\ lastOp.op = "storage"
  /\ Len(lsOrders) = 1
  /\ orders["c1"] = lsOrders
  /\ lsOrders[1].id = "Q-002"
  /\ ~storageEvt["c1"]

---------------------------------------------------------------------------
(* updateOrder and deleteOrder called with any id, stored or not, on the   *)
(* stores that customers' submissions and the earlier revision leave.      *)

\* the ids the calls are made with; Q-009 is never issued
CallIds == {"Q-001", "Q-002", "Q-009"}

\* the statuses the patches carry
CallStatuses == {"Paid", "Cancelled"}

StoreCall(name, id) ==
  Op(IF id \in IdsOf(getAllOrders(lsOrders, now)) THEN name ELSE name \o "Absent",
     "s1", TRUE)

\* updateOrder(id, {status: st})
CallUpdateOrder(s, id, st) ==
  /\ \/ updateOrder(s, id, st) /\ lastOp' = StoreCall("updateOrder", id)
     \/ saveAllOrdersThrows(s, "updateOrder")
  /\ StaffFrame

\* deleteOrder(id)
CallDeleteOrder(s, id) ==
  /\ \/ deleteOrder(s, id) /\ lastOp' = StoreCall("deleteOrder", id)
     \/ saveAllOrdersThrows(s, "deleteOrder")
  /\ StaffFrame

NextStore ==
  \/ \E s \in Customers :
       \/ \E f \in StoreFlavors : AddFlavor(s, f) /\ Small(StoreMaxUnits)
       \/ \E f \in BoardForms : FillForm(s, f)
       \/ PlaceClick(s)
       \/ SubmitFire(s) /\ now' = now
       \/ Reload(s)
  \/ \E s \in Staff, id \in CallIds, st \in CallStatuses : CallUpdateOrder(s, id, st)
  \/ \E s \in Staff, id \in CallIds : CallDeleteOrder(s, id)
  \/ \E s \in Sessions : StorageDeliver(s)

SpecStore == InitLegacy /\ [][NextStore]_vars

(* C20: updateOrder and deleteOrder called with an id that matches no     *)
(* persisted order leave the content of the persisted collection, as      *)
(* getAllOrders reads it, as it was (and the queue sequence too; a tab is *)
(* notified only where the stored text itself changed, as it does when    *)
(* the records of the earlier revision are written back completed); the   *)
(* call completes: the caller's list is the collection.                   *)
C20_UnknownIdNoop ==
  [][ lastOp'.op \in {"updateOrderAbsent", "deleteOrderAbsent"} =>
        /\ getAllOrders(lsOrders', now') = getAllOrders(lsOrders, now)
        /\ lsSeq' = lsSeq
        /\ ((lsOrdersKey /\ lsOrders' = lsOrders) => storageEvt' = storageEvt)
        /\ orders'["s1"] = getAllOrders(lsOrders, now) ]_vars

\* updateOrder has been called with an id that no stored order has, on a
\* store of two orders
C20_Witness ==
  /\ lastOp.op = "updateOrderAbsent"
  /\ Len(lsOrders) = 2
  /\ lsOrders[1].id = "Q-002"

\* the same for deleteOrder, after the order of that id was deleted
C20_DeleteAgain ==
  /\ lastOp.op = "deleteOrderAbsent"
  /\ IdsOf(lsOrders) = {"Q-002"}

(* C21: after a confirmed wipeAll the persisted collection is empty and   *)
(* the queue sequence is reset, so that the next order submitted is       *)
(* Q-001 (the sequence changes by submissions and wipes only); a wipeAll  *)
(* whose confirmation is declined changes neither.                        *)
C21_WipeResets ==
  /\ [][ lastOp'.op = "wipeAll" =>
           /\ lsOrders' = <<>>
           /\ lsSeq' = NoSeq
           /\ nextQueueNumber(lsSeq', nowYear') = "Q-001" ]_vars
  /\ [][ lastOp'.op = "wipeDeclined" =>
           lsOrders' = lsOrders /\ lsSeq' = lsSeq ]_vars
  /\ [][ lsSeq' # lsSeq => lastOp'.op \in {"wipeAll", "submitDone"} ]_vars
  /\ [][ (lastOp'.op = "submitDone" /\ lsSeq = NoSeq) =>
           /\ lsOrders'[1].id = "Q-001"
           /\ \E s \in Customers : placed'[s] = lsOrders'[1] ]_vars

\* a store that held an order has just been wiped: the customer tab still
\* lists the order
C21_Witness ==
  /\ lastOp.op = "wipeAll"
  /\ lsOrders = <<>>
  /\ lsSeq = NoSeq
  /\ Len(orders["c1"]) = 1
  /\ storageEvt["c1"]

---------------------------------------------------------------------------
(* The whole program with the browser's event loop at work: a "storage"    *)
(* event queued for a tab is dispatched to its listener in the end.        *)
SpecNotify == Spec /\ \A x \in Sessions : WF_vars(StorageDeliver(x))

(* C22: whenever a session changes the persisted collection (create,      *)
(* status update, delete, wipe or sweep), every other session is due a    *)
(* notification; a session that is due one is in the end invoked with a   *)
(* snapshot; and a session with no notification outstanding lists the     *)
(* persisted collection.                                                  *)
C22_SubscribersCatchUp ==
  /\ [][ lsOrders' # lsOrders =>
           \E s \in Sessions :
             /\ orders'[s] = lsOrders'
             /\ \A x \in Sessions \ {s} : storageEvt'[x] ]_vars
  /\ \A x \in Sessions : storageEvt[x] ~> ~storageEvt[x]
  /\ [](\A x \in Sessions :
          ~storageEvt[x] => orders[x] = getAllOrders(lsOrders, now))
  /\ [][ \A x \in Sessions :
           (storageEvt[x] /\ ~storageEvt'[x]) =>
              orders'[x] = getAllOrders(lsOrders, now) ]_vars

\* the staff tab has been handed the order the customer tab stored
C22_Witness ==
  /\ lastOp.op = "storage"
  /\ Len(lsOrders) = 1
  /\ lsOrders[1] = placed["c1"]
  /\ orders["s1"] = lsOrders
  /\ ~storageEvt["s1"]

---------------------------------------------------------------------------
(* A customer tab and a staff tab writing at overlapping instants.  Each    *)
(* handler reads the whole collection, transforms its copy and writes the  *)
(* whole collection back; the other tab, in its own process, may write     *)
(* between the getItem and the setItem.  The handlers of the board are     *)
(* taken one storage access at a time, like the callback of submitOrder    *)
(* above; inflight[s] of a staff tab holds the copy its handler has read.  *)
(* The customer places one order, on an empty store or behind the order    *)
(* the earlier revision left.                                              *)

\* the handler of a staff tab has read the collection and built next
StaffRead(s, what, id, next) ==
  /\ BoardView(s)
  /\ PcOf(s) = "timer"
  /\ inflight' = [inflight EXCEPT ![s] =
        [pc |-> "gotOrders", what |-> what, id |-> id,
         seen |-> getAllOrders(lsOrders, now), next |-> next] @@ NoFlight]
  /\ UNCHANGED <<lsOrders, lsOrdersKey, lsSeq, storageEvt>>
  /\ RaceFrame(s, "getOrders")

\* updateOrder: getAllOrders().map(...)
UpdateRead(s, id, st) ==
  /\ \E o \in Cards(s) : o.id = id /\ ButtonShown(o.status, st)
  /\ StaffRead(s, "updateOrder", id, updateNext(getAllOrders(lsOrders, now), id, st))

\* deleteOrder: getAllOrders().filter(...)
DeleteRead(s, id) ==
  /\ \E o \in Cards(s) : o.id = id
  /\ StaffRead(s, "deleteOrder", id, deleteNext(getAllOrders(lsOrders, now), id))

\* saveAllOrders(next); setOrders(next) of updateOrder and deleteOrder
StaffWrite(s) ==
  /\ mode[s] = "staff"
  /\ PcOf(s) = "gotOrders"
  /\ saveAllOrders(s, inflight[s].next)
  /\ orders' = [orders EXCEPT ![s] = inflight[s].next]
  /\ inflight' = [inflight EXCEPT ![s] = NoFlight]
  /\ lastOp' = Op(inflight[s].what, s, TRUE)
  /\ UNCHANGED <<now, nowYear, lsSeq, mode, cart, form, placing, placed,
                 staffAuthed, cheeseTimer, calls>>

NextLost ==
  \/ \E s \in Customers :
       \/ \E f \in StoreFlavors : Idle(s) /\ AddFlavor(s, f) /\ Small(StoreMaxUnits)
       \/ Idle(s) /\ FillForm(s, RaceForm)
       \/ Idle(s) /\ PlaceClick(s)
       \/ RaceGetSeq(s)
       \/ RaceSetSeq(s)
       \/ RaceGetOrders(s)
       \/ RaceSave(s)
  \/ \E s \in Staff :
       \/ Idle(s) /\ Login(s, "1234")
       \/ \E id \in IdsOf(orders[s]), st \in Targets : UpdateRead(s, id, st)
       \/ \E id \in IdsOf(orders[s]) : DeleteRead(s, id)
       \/ StaffWrite(s)
  \/ \E s \in Sessions : Idle(s) /\ StorageDeliver(s)

SpecLost == InitLegacy /\ [][NextLost]_vars

\* session s writes back the copy it has transformed
WritesBack(s) == PcOf(s) = "gotOrders" /\ inflight'[s] = NoFlight

(* C23: when two sessions have each read the persisted collection before  *)
(* either writes back, the collection after both writes is the later      *)
(* writer's result alone: what the earlier writer stored (a new order, a  *)
(* status change) is gone, what it deleted is back (the order the later   *)
(* writer itself patches or deletes aside), and the later write goes      *)
(* through like any other (its session lists what it wrote).              *)
C23_LaterWriteWins ==
  [][ \A s \in Sessions :
        WritesBack(s) =>
          /\ \A o \in Range(lsOrders) \ Range(inflight[s].seen) :
               (s \in Staff /\ o.id = inflight[s].id) \/ o \notin Range(lsOrders')
          /\ \A o \in Range(inflight[s].seen) :
               (s \in Staff /\ o.id = inflight[s].id) \/ o \in Range(lsOrders')
          /\ s \in Customers => lsOrders' = <<placed'[s]>> \o inflight[s].seen
          /\ s \in Staff => IdsOf(lsOrders') \subseteq IdsOf(inflight[s].seen)
          /\ orders'[s] = lsOrders' ]_vars

\* the customer's order was stored and is on its confirmation page, and
\* the status update that had read the collection before has written it
\* away
C23_Witness ==
  /\ lastOp.op = "updateOrder"
  /\ placed["c1"] # NoOrder
  /\ orders["c1"][1] = placed["c1"]
  /\ placed["c1"].id \notin IdsOf(lsOrders)

\* the staff tab set Q-001 to Paid, and the submission that had read the
\* collection before has stored it as New again
C23_StatusLost ==
  /\ lastOp.op = "submitDone"
  /\ Len(lsOrders) = 2 /\ lsOrders[2].id = "Q-001" /\ lsOrders[2].status = "New"
  /\ Len(orders["s1"]) = 1 /\ orders["s1"][1].id = "Q-001"
  /\ orders["s1"][1].status = "Paid"

\* the staff tab deleted Q-001, and the submission has stored it again
C23_DeleteLost ==
  /\ lastOp.op = "submitDone"
  /\ staffAuthed["s1"] /\ orders["s1"] = <<>>
  /\ IdsOf(lsOrders) = {"Q-001", "Q-002"}

---------------------------------------------------------------------------
(* The app opened on a browser whose stored collection was not written by  *)
(* it: values that make the read fail, and records with fields missing.    *)

\* a record with no createdAt and a status the app does not know
PartialOrder == [LegacyOrder EXCEPT !.status = "Pending", !.createdAt = UndefNum]

RawStores ==
  { <<SyntaxError>>, <<Unreadable>>, <<NotArray>>, <<NullElement>>,
    <<LegacyOrder, NullElement>>, <<PartialOrder>>, <<LegacyOrder>> }

InitRead == \E raw \in RawStores : InitWith(raw, [y |-> BaseYear, n |-> 1])

NextRead ==
  \/ \E s \in Customers : CustomerBasic(s, StoreForms, StoreMaxUnits, MaxOrders)
  \/ \E s \in Customers : SubmitFire(s)
  \/ \E s \in Sessions : SweepTick(s)
  \/ \E s \in Sessions : StorageDeliver(s)
  \/ \E t \in Times : AdvanceTime(t, FALSE)

SpecRead == InitRead /\ [][NextRead]_vars

(* C24: reading a stored collection that is malformed or unreadable (the  *)
(* text does not parse, the store cannot be read, the value is no array,  *)
(* an element is null) yields the empty collection and raises no error:   *)
(* the sessions mount with an empty list, and a sweep on such a store     *)
(* finds nothing to cancel and writes nothing.                            *)
C24_BadStoreReadsEmpty ==
  /\ [](\A raw \in RawStores : ~Readable(raw) => getAllOrders(raw, now) = <<>>)
  /\ [](~Readable(lsOrders) => \A s \in Sessions : orders[s] = <<>>)
  /\ [][ (lastOp'.op = "sweep" /\ ~Readable(lsOrders)) =>
           /\ ~lastOp'.wrote
           /\ UNCHANGED <<lsOrders, lsOrdersKey, orders>> ]_vars

\* a sweep, with an order overdue, has read a collection whose second
\* element is null
C24_Witness ==
  /\ lastOp.op = "sweep"
  /\ lsOrders = <<LegacyOrder, NullElement>>
  /\ now > 0
  /\ \A s \in Sessions : orders[s] = <<>>

---------------------------------------------------------------------------
(* A status update in the staff tab while the sweep of another tab is      *)
(* under way.  The interval callback reads the clock and the collection,   *)
(* builds next and, when an order was overdue, writes next back; the       *)
(* staff tab, in its own process, may write between that read and that     *)
(* write.  The customer's order of time 0 is stored and not yet paid; the   *)
(* clock is taken to stand while a handler is between its read and write.  *)

InitExpire == InitWith(<<FullOrder(1)>>, [y |-> BaseYear, n |-> 1])

\* the interval callback up to "if (mutated)", with an order overdue; the
\* interval fires whether or not a submission of the tab is still waiting
\* for its timeout, and the closure of that submission stays as it is
SweepRead(s) ==
  /\ Idle(s)
  /\ sweepMutated(getAllOrders(lsOrders, now), now)
  /\ inflight' = [inflight EXCEPT ![s] =
        [pc |-> "swept", seen |-> getAllOrders(lsOrders, now),
         next |-> sweepNext(getAllOrders(lsOrders, now), now)] @@ @]
  /\ UNCHANGED <<lsOrders, lsOrdersKey, lsSeq, storageEvt>>
  /\ RaceFrame(s, "sweepRead")

\* saveAllOrders(next); setOrders(next) of the interval callback
SweepWrite(s) ==
  /\ PcOf(s) = "swept"
  /\ saveAllOrders(s, inflight[s].next)
  /\ orders' = [orders EXCEPT ![s] = inflight[s].next]
  /\ inflight' = [inflight EXCEPT ![s] =
        [x \in DOMAIN @ \ {"pc", "seen", "next"} |-> @[x]]]
  /\ lastOp' = Op("sweep", s, TRUE)
  /\ UNCHANGED <<now, nowYear, lsSeq, mode, cart, form, placing, placed,
                 staffAuthed, cheeseTimer, calls>>

NextExpire ==
  \/ \E s \in Sessions : SweepRead(s)
  \/ \E s \in Sessions : SweepWrite(s)
  \/ \E s \in Staff :
       \/ Idle(s) /\ Login(s, "1234")
       \/ \E id \in IdsOf(orders[s]), st \in Targets : UpdateRead(s, id, st)
       \/ StaffWrite(s)
  \/ \E s \in Sessions : Idle(s) /\ StorageDeliver(s)
  \/ \E t \in Times : AdvanceTime(t, FALSE) /\ \A s \in Sessions : PcOf(s) = "timer"

SpecExpire == InitExpire /\ [][NextExpire]_vars

(* C25: however a staff session's status update and another session's     *)
(* sweep interleave, the write of a sweep never sets to Cancelled an order *)
(* whose persisted status is Paid, or any other status than New.           *)
C25_SweepSparesPaid ==
  [][ (lastOp'.op = "sweep" /\ lastOp'.wrote) =>
        \A a \in Range(lsOrders) : \A b \in Range(lsOrders') :
          (SameOrder(a, b) /\ a.status \notin {"New", "Cancelled"}) =>
             b.status # "Cancelled" ]_vars

---------------------------------------------------------------------------
(* The whole program with a view that stays mounted: its setInterval keeps *)
(* calling the sweep.                                                      *)
SpecTimer == Spec /\ WF_vars(\E s \in Sessions : SweepTick(s))

\* the stored order of that id is New and past its expiresAt
OverdueId(id) == \E o \in Range(lsOrders) : o.id = id /\ OverdueNew(o)

\* the queue numbers given out within the bounds
IssuedIds == { QueueIds[k] : k \in 1..MaxSeq }

(* C26: every persisted order that is New after the time has passed its   *)
(* expiresAt is eventually New no longer, and unless staff set its status, *)
(* deleted it or wiped the store before, it is a sweep that ends this, by  *)
(* setting it to Cancelled; given that a mounted view's sweep timer keeps  *)
(* firing.                                                                *)
C26_OverdueGetsCancelled ==
  /\ \A id \in IssuedIds : OverdueId(id) ~> ~OverdueId(id)
  /\ [][ \A id \in IssuedIds :
           (OverdueId(id) /\ ~OverdueId(id)') =>
              \/ lastOp'.op \in {"updateOrder", "deleteOrder", "wipeAll"}
              \/ /\ lastOp'.op = "sweep"
                 /\ \E o \in Range(lsOrders') : o.id = id /\ o.status = "Cancelled" ]_vars

\* a sweep has cancelled the order that was left unpaid past its window
C26_Witness ==
  /\ lastOp.op = "sweep" /\ lastOp.wrote
  /\ Len(lsOrders) = 1
  /\ lsOrders[1].status = "Cancelled"
  /\ lsOrders[1].expiresAt # UndefNum /\ now > lsOrders[1].expiresAt
  /\ ~OverdueId(lsOrders[1].id)

(* C27: a sweep changes nothing but the status of overdue New orders: the *)
(* collection keeps its length and its order, every order keeps all its   *)
(* other fields, the queue sequence and the carts are untouched; and when *)
(* no order is overdue the sweep writes nothing, notifies nobody and      *)
(* leaves the session's list as it is, even where that list is behind.    *)
C27_SweepFrame ==
  [][ lastOp'.op \in {"sweep", "sweepAfterSweep"} =>
        /\ Len(lsOrders') = Len(lsOrders)
        /\ \A i \in 1..Len(lsOrders) :
             /\ [lsOrders'[i] EXCEPT !.status = lsOrders[i].status] = lsOrders[i]
             /\ lsOrders'[i].status # lsOrders[i].status => OverdueNew(lsOrders[i])
        /\ UNCHANGED <<lsSeq, cart, form, placing, inflight, placed, now>>
        /\ (\A o \in Range(lsOrders) : ~OverdueNew(o)) =>
              /\ ~lastOp'.wrote
              /\ UNCHANGED <<lsOrders, lsOrdersKey, orders, storageEvt>> ]_vars

\* a sweep has cancelled the older of two orders and left the newer, not
\* yet overdue, as it was
C27_Witness ==
  /\ lastOp.op = "sweep" /\ lastOp.wrote
  /\ Len(lsOrders) = 2
  /\ lsOrders[1].status = "New" /\ now = lsOrders[1].expiresAt
  /\ lsOrders[2].status = "Cancelled" /\ now > lsOrders[2].expiresAt

\* a sweep with nothing overdue has run in a tab whose list is behind
C27_Idle ==
  /\ lastOp.op = "sweep" /\ ~lastOp.wrote
  /\ \E s \in Sessions : storageEvt[s] /\ orders[s] # lsOrders

(* C28: right after a session's own mutation (a submission, a status      *)
(* update, a delete, a confirmed wipe, a sweep that changed something)    *)
(* that session's order list is the collection it has just persisted; no  *)
(* notification is queued for it or awaited.                              *)
C28_OwnWriteShown ==
  /\ [][ lastOp'.op = "submitDone" =>
           \A s \in Customers :
             (inflight[s].active /\ ~inflight'[s].active) =>
                orders'[s] = lsOrders' /\ storageEvt'[s] = storageEvt[s] ]_vars
  /\ [][ lastOp'.op \in {"updateOrder", "deleteOrder", "wipeAll"} =>
           \E s \in Staff :
             /\ BoardView(s)
             /\ orders'[s] = lsOrders' /\ storageEvt'[s] = storageEvt[s] ]_vars
  /\ [][ (lastOp'.op = "sweep" /\ lastOp'.wrote) =>
           \E s \in Sessions :
             /\ SweepTick(s)
             /\ orders'[s] = lsOrders' /\ storageEvt'[s] = storageEvt[s] ]_vars

\* the staff tab has set a status and lists the collection as stored, while
\* the customer tab, not yet notified, is behind
C28_Witness ==
  /\ lastOp.op = "updateOrder"
  /\ Len(lsOrders) = 1 /\ lsOrders[1].status = "Paid"
  /\ orders["s1"] = lsOrders
  /\ ~storageEvt["s1"]
  /\ storageEvt["c1"] /\ orders["c1"] # lsOrders

---------------------------------------------------------------------------
(* Views that unmount.  The cleanup of App's effect removes the storage    *)
(* listener and clears the interval; the timeout of a submission under way *)
(* is not cleared by it and still runs, its setters falling on a component *)
(* that is gone.  mode[s] = "unmounted" marks the view of s as unmounted;  *)
(* the other variables of s keep what the view last held.                  *)

\* a variant in which the cleanup removes nothing
MountedAlways(s) == TRUE

\* the listener and the interval of s are registered
Mounted(s) == mode[s] # "unmounted"

\* return () => { unsub(); clearInterval(tick); }
Unmount(s) ==
  /\ Mounted(s)
  /\ mode' = [mode EXCEPT ![s] = "unmounted"]
  /\ lastOp' = Op("unmount", s, FALSE)
  /\ UNCHANGED <<now, nowYear, lsOrders, lsOrdersKey, lsSeq, cart, form, placing, inflight,
                 placed, orders, staffAuthed, storageEvt, cheeseTimer, calls>>

\* the timeout of submitOrder fires after the view was unmounted: the
\* getItem of nextQueueNumber throws out of the callback on a store that
\* cannot be read, and the callback stores the order on any other
LateFire(s) ==
  /\ ~Mounted(s)
  /\ inflight[s].active
  /\ Room
  /\ IF GetItemThrows
     THEN /\ lastOp' = Op("submitThrows", s, FALSE)
          /\ UNCHANGED <<now, lsSeq, lsOrders, lsOrdersKey, storageEvt>>
     ELSE /\ \E t2 \in {now, now + 1} : \E t3 \in ClockInRead(lsOrders, t2) :
               /\ t2 \in Times /\ t3 \in Times
               /\ LET order == buildOrder(inflight[s], lsSeq, nowYear, now, t2)
                  IN /\ lsSeq' = nextSeq(lsSeq, nowYear)
                     /\ lsOrders' = createNext(getAllOrders(lsOrders, t3), order)
                     /\ lsOrdersKey' = TRUE
                     /\ storageEvt' = Notified(s, TRUE)
               /\ now' = t3
          /\ lastOp' = Op("submitDone", s, TRUE)
  /\ inflight' = [inflight EXCEPT ![s] = NextFlight(@)]
  /\ UNCHANGED <<nowYear, mode, cart, form, placing, placed, orders,
                 staffAuthed, cheeseTimer, calls>>

\* the orders held in the specification below, the entry of a store that
\* cannot be read aside
UnmountHeld == IF GetItemThrows THEN StoreMaxOrders + Len(lsOrders) ELSE StoreMaxOrders

NextUnmount ==
  \/ \E s \in Customers : CustomerBasic(s, StoreForms, StoreMaxUnits, UnmountHeld)
  \/ \E s \in Customers : SubmitFire(s) /\ Mounted(s)
  \/ \E s \in Customers : LateFire(s)
  \/ \E s \in Staff : Login(s, "1234")
  \/ \E s \in Staff : \E id \in IdsOf(orders[s]), st \in Targets :
       StatusClick(s, id, st)
  \/ \E s \in Sessions : SweepTick(s) /\ Mounted(s)
  \/ \E s \in Sessions : StorageDeliver(s) /\ Mounted(s)
  \/ \E s \in Sessions : Unmount(s)
  \/ \E t \in Times : AdvanceTime(t, FALSE)

\* a browser that has never run the app, or one whose localStorage cannot
\* be read
InitUnmount ==
  \/ InitWith(<<>>, NoSeq)
  \/ InitWith(<<Unreadable>>, NoSeq)

SpecUnmount == InitUnmount /\ [][NextUnmount]_vars

\* the view of s has been unmounted
Gone(s) == mode[s] = "unmounted"

\* the step is a write to the store by a mounted view, which then lists it
MountedWrite == \E x \in Sessions : ~Gone(x) /\ orders'[x] = lsOrders'

(* C29, as stated: after a view unmounts its sweep timer never fires and  *)
(* its subscription callback is never invoked again; no later store       *)
(* change or time advance makes that view write to the store or update    *)
(* its order list.                                                        *)
C29_UnmountedNeverWrites ==
  [][ \A s \in Sessions :
        Gone(s) =>
          /\ orders'[s] = orders[s]
          /\ (storageEvt[s] => storageEvt'[s])
          /\ (lsOrders' # lsOrders \/ lsSeq' # lsSeq) => MountedWrite ]_vars

\* the timeout of a submission of s fires in this step
FiresLate(s) == Gone(s) /\ inflight[s].active /\ inflight'[s] # inflight[s]

(* C29, amended: after a view unmounts its sweep never writes and its     *)
(* subscription callback is never invoked again (an event queued for it   *)
(* stays queued), and its order list, cart, form and confirmation never   *)
(* change; the one write to the store it can still make is the completion *)
(* of a submission that was under way when it unmounted.  That completion *)
(* does run: where the store can be read it takes the next queue number   *)
(* and stores the new order at the head of the collection, and the other  *)
(* tabs are due a notification; where reading the store throws, it stores *)
(* nothing and takes no number.                                           *)
C29_UnmountedIsQuiet ==
  /\ [][ \A s \in Sessions :
          Gone(s) =>
            /\ orders'[s] = orders[s] /\ cart'[s] = cart[s]
            /\ form'[s] = form[s] /\ placed'[s] = placed[s]
            /\ (storageEvt[s] => storageEvt'[s])
            /\ (lsOrders' # lsOrders \/ lsSeq' # lsSeq) =>
                  \/ MountedWrite
                  \/ \E x \in Sessions : FiresLate(x) ]_vars
  /\ [][ \A s \in Sessions :
          FiresLate(s) =>
            IF GetItemThrows
            THEN /\ UNCHANGED <<lsOrders, lsOrdersKey, lsSeq, storageEvt>>
                 /\ ~lastOp'.wrote
            ELSE /\ lsSeq' = nextSeq(lsSeq, nowYear)
                 /\ Len(lsOrders') = Len(lsOrders) + 1
                 /\ lsOrders'[1].id = nextQueueNumber(lsSeq, nowYear)
                 /\ lsOrders'[1].status = "New"
                 /\ lsOrders'[1].createdAt = now
                 /\ [i \in 1..Len(lsOrders'[1].items) |-> lsOrders'[1].items[i].sku]
                      = [i \in 1..Len(inflight[s].items) |-> inflight[s].items[i].sku]
                 /\ SubSeq(lsOrders', 2, Len(lsOrders')) = getAllOrders(lsOrders, now')
                 /\ \A x \in Sessions \ {s} : storageEvt'[x]
                 /\ lastOp'.wrote ]_vars
  /\ [](\A s \in Sessions :
          (Gone(s) /\ inflight[s].active /\ Room) => ENABLED LateFire(s))

\* the customer's view was unmounted with a submission under way, whose
\* order was then stored without reaching the view's list or confirmation;
\* staff have since set it to Paid, and the view's listener has not run
C29_Witness ==
  /\ Gone("c1")
  /\ lastOp.op = "updateOrder"
  /\ Len(lsOrders) = 1 /\ lsOrders[1].status = "Paid"
  /\ orders["c1"] = <<>> /\ placed["c1"] = NoOrder
  /\ ~inflight["c1"].active
  /\ storageEvt["c1"]

\* the timeout fired in the unmounted view over a store that cannot be
\* read, and nothing was stored
C29_LateThrows ==
  /\ Gone("c1")
  /\ lastOp.op = "submitThrows"
  /\ GetItemThrows
  /\ ~inflight["c1"].active
  /\ lsSeq = NoSeq

\* sku, name, unitPrice, qty and add-ons of the lines of a cart
LineItems(c) ==
  [i \in 1..Len(c) |->
     [sku |-> c[i].sku, name |-> c[i].name, unitPrice |-> c[i].unitPrice,
      qty |-> c[i].qty, addons |-> c[i].addons]]

(* C30: after a successful submission the cart is empty, exactly one      *)
(* order, of status New, has been added to the persisted collection, and  *)
(* its items carry the sku, name, unitPrice, qty and add-ons of the lines *)
(* of the cart that was submitted, in the same order. The cart that was   *)
(* submitted is read either way: as it was at the click, or as it is when *)
(* the submission completes.                                              *)
C30_OrderCarriesCart ==
  [][ lastOp'.op = "submitDone" =>
        \A s \in Customers :
          (inflight[s].active /\ ~inflight'[s].active) =>
             /\ cart'[s] = <<>>
             /\ Len(lsOrders') = Len(lsOrders) + 1
             /\ SubSeq(lsOrders', 2, Len(lsOrders')) = lsOrders
             /\ lsOrders'[1].status = "New"
             /\ \/ lsOrders'[1].items = LineItems(inflight[s].atClick)
                \/ lsOrders'[1].items = LineItems(cart[s]) ]_vars

---------------------------------------------------------------------------
(* updateOrder and deleteOrder called on a browser whose stored collection *)
(* makes the read fail or holds records with fields missing.               *)

NextBroken ==
  \/ \E s \in Customers :
       \/ \E f \in StoreFlavors : AddFlavor(s, f) /\ Small(StoreMaxUnits)
       \/ \E f \in BoardForms : FillForm(s, f)
       \/ PlaceClick(s)
       \/ SubmitFire(s) /\ now' = now
  \/ \E s \in Staff, id \in CallIds, st \in CallStatuses : CallUpdateOrder(s, id, st)
  \/ \E s \in Staff, id \in CallIds : CallDeleteOrder(s, id)
  \/ \E s \in Sessions : StorageDeliver(s)

SpecBroken == InitRead /\ [][NextBroken]_vars

(* C31: when the stored collection is malformed or unreadable, a status   *)
(* update or a delete, for any id, leaves the stored data as it was       *)
(* rather than replacing it.                                              *)
C31_BrokenStoreKept ==
  [][ ( /\ lastOp'.op \in {"updateOrder", "updateOrderAbsent",
                           "deleteOrder", "deleteOrderAbsent"}
        /\ ~Readable(lsOrders) )
      => lsOrders' = lsOrders ]_vars

---------------------------------------------------------------------------
(* firebase.ts: the remote document collection.  Here lsOrders holds the   *)
(* documents of the collection "orders" as the query returns them, each    *)
(* [id, data], data a function from field names to values; orders[s] is    *)
(* what the callback given to watchOrders was last called with, and        *)
(* storageEvt[s] says that a snapshot is due to the listener of s.  A      *)
(* time field holds a Timestamp [seconds, nanoseconds] or a number, or is  *)
(* absent.  The documents come from createOrder, which has the server set  *)
(* createdAt, from updateOrderDoc, and from writers outside this file; now *)
(* counts the writes called since the listeners were registered.  The      *)
(* call of createOrder and the server's answer to its addDoc are two       *)
(* steps: inflight[s] holds the documents of s that await the answer, and  *)
(* the listener of s may run in between.                                   *)

Ts(sec, nano) == [t |-> "Timestamp", seconds |-> sec, nanoseconds |-> nano]
Num(n) == [t |-> "number", v |-> n]
Undefined == [t |-> "undefined"]

\* Timestamp.toMillis(), a method of the Firestore SDK: the number it
\* returns is named here by the seconds and nanoseconds it is taken of, and
\* nothing is said of how the nanoseconds are rounded
toMillis(ts) == [t |-> "number", millisOf |-> <<ts.seconds, ts.nanoseconds>>]

\* data.createdAt, undefined when the document has no such field
Field(data, k) == IF k \in DOMAIN data THEN data[k] ELSE Undefined

\* a variant that hands every value on as it is
asMillisNever(v) == v

\* v instanceof Timestamp ? v.toMillis() : v
asMillis(v) == IF v.t = "Timestamp" THEN toMillis(v) ELSE v

\* { _docId: d.id, ...data, createdAt: ..., expiresAt: ... }
watchDoc(d) ==
  [k \in DOMAIN d.data \cup {"_docId", "createdAt", "expiresAt"} |->
     IF k \in {"createdAt", "expiresAt"} THEN asMillis(Field(d.data, k))
     ELSE IF k \in DOMAIN d.data THEN d.data[k]
     ELSE d.id]

\* snap.docs.map(...)
watchOrders(docs) == [i \in 1..Len(docs) |-> watchDoc(docs[i])]

\* the values a stored time field is given
CreatedValues == {Ts(1, 999999999), Num(1500)}
ExpiresValues == {Ts(601, 500000000), Num(601500)}

BaseData == ("id" :> "Q-001") @@ ("status" :> "New")

WithField(data, k, present, v) == IF present THEN (k :> v) @@ data ELSE data

SampleData ==
  { WithField(WithField(WithField(BaseData, "createdAt", hc, c),
                        "expiresAt", he, e), "_docId", hd, "stale")
      : hc \in BOOLEAN, c \in CreatedValues,
        he \in BOOLEAN, e \in ExpiresValues, hd \in BOOLEAN }

DocIds == {"a", "b"}

\* the values serverTimestamp() is resolved to
ServerStamps == {Ts(2, 0), Ts(2, 123456789)}

\* the fields updateOrderDoc is given
Patches ==
  { ("status" :> "Paid"), ("expiresAt" :> Num(602000)), ("expiresAt" :> Ts(602, 0)),
    ("createdAt" :> Num(1500)) }

\* the collection when the listeners are registered: empty, or one document
\* that another writer stored
SampleSnapshots ==
  {<<>>} \cup { <<[id |-> "b", data |-> x]>> : x \in SampleData }

\* the docData that createOrder is given: no time field, an expiresAt that
\* the client computed, and a createdAt and a _docId of the client's own
OrderInputs ==
  { BaseData,
    ("expiresAt" :> Num(601500)) @@ BaseData,
    ("expiresAt" :> Ts(601, 500000000)) @@ BaseData,
    ("createdAt" :> Num(1500)) @@ ("_docId" :> "stale") @@ BaseData }

InitWatch ==
  /\ now = 0
  /\ nowYear = BaseYear
  /\ lsOrders \in SampleSnapshots
  /\ lsOrdersKey = FALSE
  /\ lsSeq = NoSeq
  /\ mode = [s \in Sessions |-> IF s \in Staff THEN "staff" ELSE "customer"]
  /\ cart = [s \in Sessions |-> <<>>]
  /\ form = [s \in Sessions |-> BlankForm]
  /\ placing = [s \in Sessions |-> FALSE]
  /\ inflight = [s \in Sessions |-> NoFlight]
  /\ placed = [s \in Sessions |-> NoOrder]
  /\ orders = [s \in Sessions |-> <<>>]
  /\ staffAuthed = [s \in Sessions |-> FALSE]
  /\ storageEvt = [s \in Sessions |-> TRUE]
  /\ cheeseTimer = [s \in Sessions |-> <<>>]
  /\ calls = [k \in AllSkus |-> 0]
  /\ lastOp = NoOp

\* what addDoc is handed for createdAt, and what data() reads for it in a
\* document whose write the server has not answered
ServerTimestamp == [t |-> "serverTimestamp"]
Null == [t |-> "null"]

\* the documents of s that addDoc has been handed and the server has not
\* answered for, oldest first
Awaiting(s) == IF "awaiting" \in DOMAIN inflight[s] THEN inflight[s].awaiting ELSE <<>>

\* inflight[s] with these documents awaiting the server
WithAwaiting(docs) == IF docs = <<>> THEN NoFlight ELSE [awaiting |-> docs] @@ NoFlight

\* the ids of the documents stored or awaiting the server
TakenIds ==
  { lsOrders[i].id : i \in 1..Len(lsOrders) }
  \cup UNION { { Awaiting(s)[i].id : i \in 1..Len(Awaiting(s)) } : s \in Sessions }

WatchFrame ==
  UNCHANGED <<nowYear, lsSeq, lsOrdersKey, mode, cart, form, placing,
              placed, staffAuthed, cheeseTimer, calls>>

\* one more write of the collection, within the bound
WriteFrame ==
  /\ now < MaxWrites
  /\ now' = now + 1
  /\ orders' = orders
  /\ WatchFrame

\* docs with d put at one of its places: where a document stands in the
\* order of the query follows from its createdAt, which is the server's
Placed(docs, d) ==
  { SubSeq(docs, 1, i) \o <<d>> \o SubSeq(docs, i + 1, Len(docs)) : i \in 0..Len(docs) }

\* a document awaiting the server as the tab that wrote it reads it
AsRead(d) == [id |-> d.id, data |-> ("createdAt" :> Null) @@ d.data]

RECURSIVE WithLocal(_, _)
\* the snapshots of docs with the documents pend of the tab's own among them
WithLocal(docs, pend) ==
  IF pend = <<>> THEN {docs}
  ELSE UNION { WithLocal(v, Tail(pend)) : v \in Placed(docs, AsRead(Head(pend))) }

\* the snapshots the listener of s can be handed: the documents stored, and
\* with them those that s has written and the server has not answered for
LocalViews(s) == WithLocal(lsOrders, Awaiting(s))

\* the listener of onSnapshot runs: cb(out)
SnapshotFire(s) ==
  /\ storageEvt[s]
  /\ storageEvt' = [storageEvt EXCEPT ![s] = FALSE]
  /\ \E snap \in LocalViews(s) : orders' = [orders EXCEPT ![s] = watchOrders(snap)]
  /\ lastOp' = Op("snapshot", s, FALSE)
  /\ UNCHANGED <<now, lsOrders, inflight>>
  /\ WatchFrame

\* createOrder(docData) up to its await: addDoc is handed
\* { ...docData, createdAt: serverTimestamp() } under a new id, and the
\* listener of the tab is due the snapshot that holds the document
createOrder(s, docId, docData) ==
  /\ Len(Awaiting(s)) < MaxAwaiting
  /\ docId \notin TakenIds
  /\ inflight' = [inflight EXCEPT ![s] =
        WithAwaiting(Append(Awaiting(s),
           [id |-> docId, data |-> ("createdAt" :> ServerTimestamp) @@ docData]))]
  /\ storageEvt' = [storageEvt EXCEPT ![s] = TRUE]
  /\ lastOp' = Op("createOrder", s, FALSE)
  /\ lsOrders' = lsOrders
  /\ WriteFrame

\* the server answers addDoc: the document is stored with the createdAt the
\* server sets, every listener is due a snapshot, and createOrder returns
\* ref.id
AddDocSettles(s, stamp) ==
  /\ Awaiting(s) # <<>>
  /\ LET d == Head(Awaiting(s))
     IN lsOrders' \in Placed(lsOrders, [id |-> d.id, data |-> ("createdAt" :> stamp) @@ d.data])
  /\ inflight' = [inflight EXCEPT ![s] = WithAwaiting(Tail(Awaiting(s)))]
  /\ storageEvt' = [x \in Sessions |-> TRUE]
  /\ lastOp' = Op("createOrderDone", s, TRUE)
  /\ UNCHANGED <<now, orders>>
  /\ WatchFrame

\* addDoc is rejected: the await throws out of createOrder, the document is
\* not stored, and the listener of the tab is due a snapshot without it
AddDocRejects(s) ==
  /\ Awaiting(s) # <<>>
  /\ inflight' = [inflight EXCEPT ![s] = WithAwaiting(Tail(Awaiting(s)))]
  /\ storageEvt' = [storageEvt EXCEPT ![s] = TRUE]
  /\ lastOp' = Op("createOrderRejects", s, FALSE)
  /\ UNCHANGED <<now, lsOrders, orders>>
  /\ WatchFrame

\* updateOrderDoc(docId, patch): updateDoc sets the fields of patch on the
\* document and keeps the others; it is rejected, and nothing changes, when
\* there is no such document
updateOrderDoc(docId, patch) ==
  /\ IF \E i \in 1..Len(lsOrders) : lsOrders[i].id = docId
     THEN LET i    == CHOOSE j \in 1..Len(lsOrders) : lsOrders[j].id = docId
              d    == [id |-> docId, data |-> patch @@ lsOrders[i].data]
              rest == SelectSeq(lsOrders, LAMBDA x : x.id # docId)
          IN /\ lsOrders' \in IF "createdAt" \in DOMAIN patch THEN Placed(rest, d)
                               ELSE {[lsOrders EXCEPT ![i] = d]}
             /\ storageEvt' = [s \in Sessions |-> TRUE]
             /\ lastOp' = Op("updateOrderDoc", "s1", TRUE)
     ELSE /\ UNCHANGED <<lsOrders, storageEvt>>
          /\ lastOp' = Op("updateOrderDocAbsent", "s1", FALSE)
  /\ inflight' = inflight
  /\ WriteFrame

\* deleteOrderDoc(docId): the document goes, and every listener is due the
\* next snapshot
deleteOrderDoc(docId) ==
  /\ \E i \in 1..Len(lsOrders) : lsOrders[i].id = docId
  /\ lsOrders' = SelectSeq(lsOrders, LAMBDA d : d.id # docId)
  /\ storageEvt' = [s \in Sessions |-> TRUE]
  /\ lastOp' = Op("deleteOrderDoc", "s1", TRUE)
  /\ inflight' = inflight
  /\ WriteFrame

NextWatch ==
  \/ \E s \in Sessions : SnapshotFire(s)
  \/ \E s \in Sessions, docId \in DocIds, docData \in OrderInputs :
       createOrder(s, docId, docData)
  \/ \E s \in Sessions, stamp \in ServerStamps : AddDocSettles(s, stamp)
  \/ \E s \in Sessions : AddDocRejects(s)
  \/ \E docId \in DocIds, patch \in Patches : updateOrderDoc(docId, patch)
  \/ \E docId \in DocIds : deleteOrderDoc(docId)

SpecWatch == InitWatch /\ [][NextWatch]_vars

\* the listener of s is called in this step
Handed(s) == storageEvt[s] /\ ~storageEvt'[s]

TimeFields == {"createdAt", "expiresAt"}

\* o is the document d of a snapshot as watchOrders hands it on: a Timestamp
\* as the number toMillis returns, an absent time field as undefined, and
\* every other value as it is
Converted(d, o) ==
  /\ \A k \in TimeFields :
       /\ k \notin DOMAIN d.data => o[k] = Undefined
       /\ (k \in DOMAIN d.data /\ d.data[k].t = "Timestamp") => o[k] = toMillis(d.data[k])
       /\ (k \in DOMAIN d.data /\ d.data[k].t # "Timestamp") => o[k] = d.data[k]
  /\ \A k \in DOMAIN d.data \ TimeFields : o[k] = d.data[k]
  /\ "_docId" \notin DOMAIN d.data => o["_docId"] = d.id

\* the listener is handed a snapshot of the tab with each document converted
HandsOnConverted ==
  [][ \A s \in Sessions :
        Handed(s) =>
          \E snap \in LocalViews(s) :
            /\ Len(orders'[s]) = Len(snap)
            /\ \A i \in 1..Len(snap) : Converted(snap[i], orders'[s][i]) ]_vars

\* the kinds of value that the time fields of the delivered orders hold
DeliveredKinds ==
  UNION { { orders[s][i][k].t : i \in 1..Len(orders[s]), k \in TimeFields } : s \in Sessions }

(* C32: every order delivered by watchOrders has createdAt and expiresAt  *)
(* as plain numbers of epoch milliseconds: a Timestamp is converted with  *)
(* toMillis, a value that is a number already or is absent is passed      *)
(* through unchanged, and so is every other field of the record.          *)
C32_TimesAreMillis ==
  /\ [](DeliveredKinds \subseteq {"number", "undefined"})
  /\ HandsOnConverted

\* what holds of C32: no Timestamp reaches the listener, and a time field is
\* delivered as a number, as undefined where the document has none, or as
\* the null that the tab's own createOrder reads before the server answers
C32_TimestampsConverted ==
  /\ [](DeliveredKinds \subseteq {"number", "undefined", "null"})
  /\ HandsOnConverted

\* createOrder has called addDoc and awaits the server, and the listener of
\* its tab has been handed the document with createdAt null
C32_PendingNull ==
  /\ lastOp.op = "snapshot"
  /\ Len(Awaiting("c1")) = 1
  /\ ~storageEvt["c1"]
  /\ Len(orders["c1"]) = 1
  /\ orders["c1"][1]["createdAt"] = Null
  /\ orders["c1"][1]["_docId"] = "a"
  /\ lsOrders = <<>>

\* a snapshot of two documents has been delivered: the first was written
\* by createOrder, the server setting its createdAt, and then given a
\* Timestamp as expiresAt by updateOrderDoc, and both fields are delivered
\* as numbers; the second stored a number and no expiresAt
C32_Settled ==
  /\ lastOp.op = "snapshot"
  /\ ~storageEvt["s1"]
  /\ Len(lsOrders) = 2
  /\ lsOrders[1].id = "a"
  /\ Field(lsOrders[1].data, "createdAt") = Ts(2, 123456789)
  /\ orders["s1"][1]["createdAt"] = toMillis(Ts(2, 123456789))
  /\ Field(lsOrders[1].data, "expiresAt") = Ts(602, 0)
  /\ orders["s1"][1]["expiresAt"].t = "number"
  /\ orders["s1"][1]["status"] = "New"
  /\ orders["s1"][1]["_docId"] = "a"
  /\ "expiresAt" \notin DOMAIN lsOrders[2].data
  /\ Field(lsOrders[2].data, "createdAt") = Num(1500)
  /\ Len(orders["s1"]) = 2
  /\ orders["s1"][2]["createdAt"] = Num(1500)
  /\ orders["s1"][2]["expiresAt"] = Undefined

(* C33: the order created by a submission reflects the cart and the       *)
(* subtotal as they were when submitOrder was called: changes made to the *)
(* cart during the delay are not in the order, and they are dropped when  *)
(* the cart is cleared on completion.                                     *)
C33_OrderFrozenAtClick ==
  [][ lastOp'.op = "submitDone" =>
        \A s \in Customers :
          (inflight[s].active /\ ~inflight'[s].active) =>
             /\ lsOrders'[1].items = LineItems(inflight[s].atClick)
             /\ lsOrders'[1].total = Round2(subtotal(inflight[s].atClick))
             /\ cart'[s] = <<>> ]_vars

---------------------------------------------------------------------------
(* updateOrder and deleteOrder on a store that customers fill across a     *)
(* change of year.                                                         *)

NextRollover ==
  \/ \E s \in Customers :
       \/ \E f \in StoreFlavors : AddFlavor(s, f) /\ Small(StoreMaxUnits)
       \/ \E f \in BoardForms : FillForm(s, f)
       \/ PlaceClick(s)
       \/ SubmitFire(s) /\ now' = now
       \/ Reload(s)
  \/ \E s \in Staff, id \in CallIds, st \in CallStatuses : CallUpdateOrder(s, id, st)
  \/ \E s \in Staff, id \in CallIds : CallDeleteOrder(s, id)
  \/ \E s \in Sessions : StorageDeliver(s)
  \/ \E t \in Times : AdvanceTime(t, TRUE)

SpecRollover == InitLegacy /\ [][NextRollover]_vars

\* the positions at which two collections of the same length differ
ChangedAt(a, b) == { i \in 1..Len(a) : a[i] # b[i] }

(* C34: updateOrder(id, patch) and deleteOrder(id) affect at most one     *)
(* order of the persisted collection: no two persisted orders share an id *)
(* at any time, a change of year with earlier orders still stored         *)
(* included.                                                              *)
C34_OneOrderPerId ==
  /\ [][ lastOp'.op = "updateOrder" =>
           /\ Len(lsOrders') = Len(lsOrders)
           /\ Cardinality(ChangedAt(lsOrders, lsOrders')) <= 1 ]_vars
  /\ [][ lastOp'.op = "deleteOrder" =>
           Len(lsOrders') >= Len(lsOrders) - 1 ]_vars
  /\ [](\A i \in 1..Len(lsOrders) : \A j \in 1..Len(lsOrders) :
          lsOrders[i].id = lsOrders[j].id => i = j)

\* the two parts of C34 apart: the calls, and the ids
C34_CallsTouchOne ==
  /\ [][ lastOp'.op = "updateOrder" =>
           /\ Len(lsOrders') = Len(lsOrders)
           /\ Cardinality(ChangedAt(lsOrders, lsOrders')) <= 1 ]_vars
  /\ [][ lastOp'.op = "deleteOrder" =>
           Len(lsOrders') >= Len(lsOrders) - 1 ]_vars

---------------------------------------------------------------------------
(* The writers of the collection together, one storage access at a time:   *)
(* a submission, the status and delete buttons of the board, and the       *)
(* sweep, with the clock passing between handlers.                         *)

\* the instant, past the payment window of an order of time 0, to which the
\* clock passes
StaleLate == PaymentWindow + MaxMs

\* the store holds one order of time 0: the one the earlier revision left,
\* which never expires, or one of this revision, which does
InitStale ==
  \E stored \in {<<LegacyOrder>>, <<FullOrder(1)>>} :
    InitWith(stored, [y |-> BaseYear, n |-> 1])

NextStale ==
  \/ \E s \in Customers :
       \/ \E f \in StoreFlavors : Idle(s) /\ AddFlavor(s, f) /\ Small(StoreMaxUnits)
       \/ Idle(s) /\ FillForm(s, RaceForm)
       \/ Idle(s) /\ PlaceClick(s)
       \/ RaceGetSeq(s)
       \/ RaceSetSeq(s)
       \/ RaceGetOrders(s)
       \/ RaceSave(s)
  \/ \E s \in Staff :
       \/ Idle(s) /\ Login(s, "1234")
       \/ \E id \in IdsOf(orders[s]), st \in CallStatuses : UpdateRead(s, id, st)
       \/ \E id \in IdsOf(orders[s]) : DeleteRead(s, id)
       \/ StaffWrite(s)
  \/ \E s \in Sessions : SweepRead(s)
  \/ \E s \in Sessions : SweepWrite(s)
  \/ \E s \in Sessions : Idle(s) /\ StorageDeliver(s)
  \/ AdvanceTime(StaleLate, FALSE) /\ \A s \in Sessions : PcOf(s) = "timer"

SpecStale == InitStale /\ [][NextStale]_vars

\* the statuses under which a collection holds the order of that id
StatusesOf(coll, id) == { o.status : o \in { x \in Range(coll) : x.id = id } }

\* session s writes back the collection it has built from an earlier read
WritesStale(s) ==
  /\ PcOf(s) \in {"gotOrders", "swept"}
  /\ "pc" \notin DOMAIN inflight'[s]
  /\ inflight[s].seen # getAllOrders(lsOrders, now)

\* the original statement of C35, of every step
C35_NeverBackToNew ==
  [][ \A id \in IdsOf(lsOrders) :
        "New" \notin StatusesOf(lsOrders, id) =>
           "New" \notin StatusesOf(lsOrders', id) ]_vars

(* C35: once an order's status has left New, no operation (staff          *)
(* transition, sweep, submission or delete of other orders) sets it back  *)
(* to New, except the write of a handler that read the collection when    *)
(* the order was still New and writes back after the status had changed:  *)
(* that write stores the order as it was read.                            *)
C35_BackToNewOnlyByStaleWrite ==
  [][ \A id \in IdsOf(lsOrders) :
        ( /\ "New" \notin StatusesOf(lsOrders, id)
          /\ "New" \in StatusesOf(lsOrders', id) )
        => \E s \in Sessions :
             /\ WritesStale(s)
             /\ "New" \in StatusesOf(inflight[s].seen, id) ]_vars

\* an order that the board had set to Paid is stored as New again by the
\* write of a sweep
C35_Witness ==
  /\ lastOp.op = "sweep" /\ lastOp.wrote
  /\ \E o \in Range(lsOrders) : o.id = "Q-001" /\ o.status = "New"
  /\ \E o \in Range(orders["s1"]) : o.id = "Q-001" /\ o.status = "Paid"

\* session s starts a submission: submitOrder sets placing and the timeout
Starts(s) == lastOp'.op = "submitStart" /\ inflight'[s] # inflight[s]

(* C36: while a submission is in flight (placing is true and the delayed  *)
(* creation has not run) no second submission can be started: the Place   *)
(* Order button is disabled for as long as the timeout is pending, and    *)
(* the timeout's callback runs once, so that one click on a filled cart   *)
(* yields at most one order and takes at most one queue number.           *)
C36_OneSubmissionInFlight ==
  /\ [](\A s \in Customers : inflight[s].active => (placing[s] /\ ~ENABLED PlaceClick(s)))
  /\ [][ lastOp'.op = "submitStart" =>
           \A s \in Customers : Starts(s) => (~inflight[s].active /\ ~placing[s]) ]_vars
  /\ [][ lastOp'.op = "submitDone" =>
           \A s \in Customers :
             (inflight[s].active /\ inflight'[s] # inflight[s]) =>
                /\ ~inflight'[s].active /\ ~placing'[s]
                /\ Len(lsOrders') = Len(lsOrders) + 1
                /\ lsSeq' = nextSeq(lsSeq, nowYear) ]_vars

\* a submission is in flight and the cart, changed since the click, is
\* filled
C36_Witness ==
  /\ inflight["c1"].active /\ placing["c1"]
  /\ Len(cart["c1"]) > 0
  /\ cart["c1"] # inflight["c1"].atClick
  /\ lastOp.op # "submitStart"

---------------------------------------------------------------------------
(* The app over a store whose records carry a status it does not know, or  *)
(* none: the tabs mount, staff log in and use the board, the sweep runs.   *)

\* the statuses of the stored records: one unknown to the app, none at all
\* (read as undefined), and one of its own
RawStatuses == {"Pending", "undefined", "Paid"}

RawOrder(k, st, exp) == [FullOrder(k) EXCEPT !.status = st, !.expiresAt = exp]

RawStatusStores ==
  { <<RawOrder(1, st, exp)>> : st \in RawStatuses, exp \in {UndefNum, PaymentWindow} }
  \cup { <<RawOrder(2, a, PaymentWindow), RawOrder(1, b, PaymentWindow)>> :
           a \in RawStatuses, b \in RawStatuses }

InitNormal == \E raw \in RawStatusStores : InitWith(raw, [y |-> BaseYear, n |-> 2])

NextNormal ==
  \/ \E s \in Staff : Login(s, "1234")
  \/ \E s \in Staff : \E id \in IdsOf(orders[s]), st \in Targets :
       StatusClick(s, id, st)
  \/ \E s \in Sessions : SweepTick(s)
  \/ \E s \in Sessions : StorageDeliver(s)
  \/ \E t \in Times : AdvanceTime(t, FALSE)

SpecNormal == InitNormal /\ [][NextNormal]_vars

\* the stored record carries no status the app knows
Unknown(o) == o.status \notin Statuses

(* C37: every order returned by getAllOrders has a status among New,      *)
(* Paid, Preparing, Ready, Done and Cancelled: a stored record whose      *)
(* status is missing or unrecognised is read as New (the others as they   *)
(* are), and from then on the sweep and the staff board treat it as New:  *)
(* the sweep cancels it once its expiresAt has passed, the board lists it *)
(* under New with the Mark Paid button.                                   *)
C37_UnknownStatusReadsNew ==
  /\ [](LET read == getAllOrders(lsOrders, now)
        IN \A i \in 1..Len(lsOrders) :
             /\ read[i].status \in Statuses
             /\ read[i].status = IF Unknown(lsOrders[i]) THEN "New"
                                 ELSE lsOrders[i].status)
  /\ [](\A s \in Sessions : \A o \in Range(orders[s]) : o.status \in Statuses)
  /\ [](\A s \in Sessions :
          orders[s] = getAllOrders(lsOrders, now) =>
            \A i \in 1..Len(lsOrders) :
              Unknown(lsOrders[i]) =>
                /\ orders[s][i] \in Range(filtered(orders[s], "New"))
                /\ ButtonShown(orders[s][i].status, "Paid"))
  /\ [][ lastOp'.op \in {"sweep", "sweepAfterSweep"} =>
           \A i \in 1..Len(lsOrders) :
             Unknown(lsOrders[i]) =>
               IF lsOrders[i].expiresAt # UndefNum /\ now > lsOrders[i].expiresAt
               THEN lsOrders'[i].status = "Cancelled"
               ELSE lsOrders'[i].status \in {"New", lsOrders[i].status} ]_vars

\* the sweep has cancelled the order stored with a status unknown to the
\* app, before anyone used the board
C37_Witness ==
  /\ lastOp.op = "sweep" /\ lastOp.wrote
  /\ Len(lsOrders) = 1
  /\ lsOrders[1].status = "Cancelled"
  /\ ~staffAuthed["s1"]

\* staff have marked Paid an order that the board read as New from a stored
\* status unknown to the app; both orders of the store are Paid now
C37_MarkedPaid ==
  /\ lastOp.op = "updateOrder" /\ lastOp.to = "Paid" /\ lastOp.from = {"New"}
  /\ Len(lsOrders) = 2
  /\ lsOrders[1].status = "Paid" /\ lsOrders[2].status = "Paid"
  /\ now = 0

====
